---- MODULE Spec2Model ----
(***************************************************************************)
(* Model of the Vulkan rasterization backend of the emulator               *)
(* (src/video_core/renderer_vulkan/vk_rasterizer.cpp).                     *)
(*                                                                         *)
(* One draw is a sequence of steps, one per function the draw calls, in    *)
(* the order the source calls them; pc names the function that runs next.  *)
(* The guest (register writes between draws) acts only when pc = "idle".   *)
(* log holds what the current draw did to its collaborators (ring-buffer   *)
(* maps and writes, binding updates, cache flushes, guest memory reads),   *)
(* in order; it is emptied when the next draw starts.                      *)
(***************************************************************************)
EXTENDS Integers, Sequences, FiniteSets, TLC

VARIABLES
    pc,                 \* the function of the draw that runs next, or "idle"
    accelerate,         \* Draw's argument accelerate
    is_indexed,         \* AccelerateDrawBatch's / Draw's argument is_indexed
    regs,               \* the guest register shadow
    pica,               \* state of the PICA core the backend reads and clears
    instance,           \* capabilities of the Vulkan instance, settings
    env,                \* the answers the collaborators can give in this run
    memory,             \* guest physical memory: its size, the index range it holds
    pipeline_info,      \* the pipeline state descriptor
    enable_attributes,  \* shader input registers resolved in this draw
    binding_offsets,    \* stream-buffer offset of each vertex binding
    vertex_info,        \* index range and size of the vertex array
    vs_data_dirty,      \* vertex uniform block changed since its last upload
    fs_data_dirty,      \* fragment uniform block changed since its last upload
    fs_data,            \* the fragment uniform block (LUT offsets, scissor)
    uniform_ranges,     \* dynamic offset of each uniform binding (UpdateRange)
    vertex_batch,       \* number of software-transformed vertices batched
    result,             \* what the last AccelerateDrawBatch / Draw returned
    log,                \* what the current draw did, in order
    framebuffer,        \* the framebuffer the surface cache resolved for the draw
    texture_set,        \* the image and sampler written to each texture binding
    scheduler,          \* the commands recorded with the scheduler, not yet executed
    cmdbuf              \* the calls the command buffer received when they last ran

vars == <<pc, accelerate, is_indexed, regs, pica, instance, env, memory,
          pipeline_info, enable_attributes, binding_offsets, vertex_info,
          vs_data_dirty, fs_data_dirty, fs_data, uniform_ranges,
          vertex_batch, result, log, framebuffer, texture_set, scheduler, cmdbuf>>

(***************************************************************************)
(* Bounds of the model.                                                    *)
(***************************************************************************)
\* Number of lighting lookup tables of the model (the hardware has more).
NumLightingSampler == 2
\* Ring-buffer maps return offset k * alignment for k in 0..MaxMapSlot.
MaxMapSlot == 1
\* sizeof the three uniform blocks, in bytes (their real sizes are larger).
SizeofVSPicaUniformData == 5
SizeofVSUniformData == 3
SizeofFSUniformData == 7
\* instance.UniformMinAlignment()
UniformMinAlignment == 4
\* The largest software vertex batch the model accumulates.
MaxVertexBatch == 3

(***************************************************************************)
(* Program constants.                                                      *)
(***************************************************************************)
SizeofVec2f == 8
SizeofVec4f == 16
LightingLutEntries == 256
FogLutEntries == 128
ProcTexValueEntries == 128
ProcTexColorEntries == 256
NumAttributes == 16

Locations == 0 .. (NumAttributes - 1)

Min(S) == CHOOSE x \in S : \A y \in S : x <= y

\* Common::AlignUp
AlignUp(value, size) ==
    IF size = 0 THEN value ELSE ((value + size - 1) \div size) * size

\* One entry of log: what was done (ev), to which buffer or cache (buf), to
\* which item of it (id, idx), at which byte offset or address (at), for how
\* many bytes (n). A Map entry carries invalidate in idx (1 = wrapped); a Copy
\* or Read entry carries in idx the guest address it reads n bytes from.
Event(ev, buf, id, idx, at, n) ==
    [ev |-> ev, buf |-> buf, id |-> id, idx |-> idx, at |-> at, n |-> n]

(***************************************************************************)
(* StreamBuffer::Map. The ring buffer hands out a region at an offset that *)
(* is a multiple of the requested alignment and reports whether it wrapped *)
(* (invalidate); a wrap restarts the buffer at offset 0. env.maps[buf] is  *)
(* the set of places (slot, invalidate) buffer buf can answer with.        *)
(***************************************************************************)
\* Every answer of a ring buffer: any slot, and slot 0 with or without a wrap.
AllMapSlots ==
    { [slot |-> k, invalidate |-> (k = 0 /\ w)] : k \in 0 .. MaxMapSlot, w \in BOOLEAN }

\* The answer of a buffer that is neither full nor used by anything else.
FirstMapSlot == { [slot |-> 0, invalidate |-> FALSE] }

MapResults(buf, alignment) ==
    LET a == IF alignment = 0 THEN 4 ELSE alignment
    IN  { [offset |-> s.slot * a, invalidate |-> s.invalidate] : s \in env.maps[buf] }

\* Map of a buffer whose cursor is known (the end of the region this function
\* committed last): the region starts at the cursor aligned up, or the buffer wraps.
MapNext(buf, cursor, alignment) ==
    { [offset |-> AlignUp(cursor, alignment), invalidate |-> FALSE] }
        \cup { [offset |-> 0, invalidate |-> TRUE] : s \in { x \in env.maps[buf] : x.invalidate } }

MapEvent(buf, m, size) ==
    Event("Map", buf, "", IF m.invalidate THEN 1 ELSE 0, m.offset, size)

CommitEvent(buf, size) == Event("Commit", buf, "", 0, 0, size)

(***************************************************************************)
(* Uniform/LUT streamer: SyncAndUploadLUTs (procedural-texture tables).    *)
(***************************************************************************)
\* The dirty bits of pica.proctex: table_dirty is the mask of the five bits.
ProcTexTables ==
    <<"noise_lut_dirty", "color_map_dirty", "alpha_map_dirty", "lut_dirty",
      "diff_lut_dirty">>

\* pica.proctex.TableAllDirty
TableAllDirty == { ProcTexTables[i] : i \in 1 .. Len(ProcTexTables) }

\* The field of fs_data that receives the element offset of each table.
ProcTexOffsetField(table) ==
    CASE table = "noise_lut_dirty" -> "proctex_noise_lut_offset"
      [] table = "color_map_dirty" -> "proctex_color_map_offset"
      [] table = "alpha_map_dirty" -> "proctex_alpha_map_offset"
      [] table = "lut_dirty"       -> "proctex_lut_offset"
      [] table = "diff_lut_dirty"  -> "proctex_diff_lut_offset"

\* sizeof one element of each table as uploaded (Vec2f pairs or Vec4f colours).
ProcTexElementSize(table) ==
    IF table \in {"lut_dirty", "diff_lut_dirty"} THEN SizeofVec4f ELSE SizeofVec2f

\* Bytes each table takes in the texture buffer.
ProcTexTableBytes(table) ==
    IF table \in {"lut_dirty", "diff_lut_dirty"}
    THEN ProcTexColorEntries * SizeofVec4f
    ELSE ProcTexValueEntries * SizeofVec2f

\* The early return of SyncAndUploadLUTs: nothing is done unless this holds.
ProcTexSyncNeeded(table_dirty) == "lut_dirty" \in table_dirty

ProcTexTablesToSync_IgnoreWrap(table_dirty, invalidate) == table_dirty

\* if (invalidate) table_dirty = TableAllDirty
ProcTexTablesToSync(table_dirty, invalidate) ==
    IF invalidate THEN TableAllDirty ELSE table_dirty

\* One table in turn: written at the running offset when its bit is set.
RECURSIVE ProcTexUpload(_, _, _)
ProcTexUpload(i, dirty, st) ==
    IF i > Len(ProcTexTables) THEN st
    ELSE LET table == ProcTexTables[i]
             at    == st.offset + st.bytes_used
         IN  IF table \notin dirty
             THEN ProcTexUpload(i + 1, dirty, st)
             ELSE ProcTexUpload(i + 1, dirty,
                    [st EXCEPT
                       !.fs_data = [@ EXCEPT ![ProcTexOffsetField(table)] =
                                        at \div ProcTexElementSize(table)],
                       !.writes = Append(@, Event("Write", "texture_buffer", table,
                                                  0, at, ProcTexTableBytes(table))),
                       !.bytes_used = @ + ProcTexTableBytes(table)])

\* max_size of SyncAndUploadLUTs
ProcTexMaxSize ==
    SizeofVec2f * ProcTexValueEntries * 3 + SizeofVec4f * ProcTexColorEntries
        + SizeofVec4f * ProcTexColorEntries

SyncAndUploadLUTs ==
    /\ pc = "SyncAndUploadLUTs"
    /\ pc' = "SyncAndUploadLUTsLF"
    /\ IF ~ProcTexSyncNeeded(pica.proctex.table_dirty)
       THEN UNCHANGED <<pica, fs_data, fs_data_dirty, log>>
       ELSE \E m \in MapResults("texture_buffer", SizeofVec4f) :
              LET dirty == ProcTexTablesToSync(pica.proctex.table_dirty, m.invalidate)
                  st == ProcTexUpload(1, dirty,
                          [fs_data |-> fs_data, writes |-> <<>>, bytes_used |-> 0,
                           offset |-> m.offset])
              IN  /\ fs_data' = st.fs_data
                  /\ fs_data_dirty' = (fs_data_dirty \/ Len(st.writes) > 0)
                  /\ pica' = [pica EXCEPT !.proctex.table_dirty = {}]
                  /\ log' = log \o <<MapEvent("texture_buffer", m, ProcTexMaxSize)>>
                                \o st.writes
                                \o <<CommitEvent("texture_buffer", st.bytes_used)>>
    /\ UNCHANGED <<accelerate, is_indexed, regs, instance, env, memory, pipeline_info,
                   enable_attributes, binding_offsets, vertex_info, vs_data_dirty,
                   uniform_ranges, vertex_batch, result,
                   framebuffer, texture_set, scheduler, cmdbuf>>

(***************************************************************************)
(* Uniform/LUT streamer: SyncAndUploadLUTsLF (lighting and fog tables).    *)
(***************************************************************************)
\* pica.lighting.LutAllDirty
LutAllDirty == 0 .. (NumLightingSampler - 1)

LightingLutBytes == LightingLutEntries * SizeofVec2f
FogLutBytes == FogLutEntries * SizeofVec2f

\* max_size of SyncAndUploadLUTsLF
LightingFogMaxSize ==
    SizeofVec2f * LightingLutEntries * NumLightingSampler + SizeofVec2f * FogLutEntries

\* if (invalidate) pica.lighting.lut_dirty = LutAllDirty
LightingLutsToSync(lut_dirty, invalidate) ==
    IF invalidate THEN LutAllDirty ELSE lut_dirty

\* if (invalidate) pica.fog.lut_dirty = true
FogLutToSync(lut_dirty, invalidate) == lut_dirty \/ invalidate

\* while (pica.lighting.lut_dirty): the lowest set bit first
RECURSIVE LightingUpload(_, _)
LightingUpload(dirty, st) ==
    IF dirty = {} THEN st
    ELSE LET index == Min(dirty)
             at    == st.offset + st.bytes_used
         IN  LightingUpload(dirty \ {index},
               [st EXCEPT
                  !.fs_data = [@ EXCEPT !.lighting_lut_offset[index] =
                                   at \div SizeofVec2f],
                  !.writes = Append(@, Event("Write", "texture_lf_buffer", "lighting",
                                             index, at, LightingLutBytes)),
                  !.bytes_used = @ + LightingLutBytes])

\* if (pica.fog.lut_dirty)
FogUpload(dirty, st) ==
    IF ~dirty THEN st
    ELSE LET at == st.offset + st.bytes_used
         IN  [st EXCEPT
                !.fs_data = [@ EXCEPT !.fog_lut_offset = at \div SizeofVec2f],
                !.writes = Append(@, Event("Write", "texture_lf_buffer", "fog", 0, at,
                                           FogLutBytes)),
                !.bytes_used = @ + FogLutBytes]

SyncAndUploadLUTsLF ==
    /\ pc = "SyncAndUploadLUTsLF"
    /\ pc' = "UploadUniforms"
    /\ IF pica.lighting.lut_dirty = {} /\ ~pica.fog.lut_dirty
       THEN UNCHANGED <<pica, fs_data, fs_data_dirty, log>>
       ELSE \E m \in MapResults("texture_lf_buffer", SizeofVec4f) :
              LET ldirty == LightingLutsToSync(pica.lighting.lut_dirty, m.invalidate)
                  fdirty == FogLutToSync(pica.fog.lut_dirty, m.invalidate)
                  st == FogUpload(fdirty,
                          LightingUpload(ldirty,
                            [fs_data |-> fs_data, writes |-> <<>>, bytes_used |-> 0,
                             offset |-> m.offset]))
              IN  /\ fs_data' = st.fs_data
                  /\ fs_data_dirty' = (fs_data_dirty \/ Len(st.writes) > 0)
                  /\ pica' = [pica EXCEPT !.lighting.lut_dirty = {},
                                          !.fog.lut_dirty = FALSE]
                  /\ log' = log \o <<MapEvent("texture_lf_buffer", m, LightingFogMaxSize)>>
                                \o st.writes
                                \o <<CommitEvent("texture_lf_buffer", st.bytes_used)>>
    /\ UNCHANGED <<accelerate, is_indexed, regs, instance, env, memory, pipeline_info,
                   enable_attributes, binding_offsets, vertex_info, vs_data_dirty,
                   uniform_ranges, vertex_batch, result,
                   framebuffer, texture_set, scheduler, cmdbuf>>

(***************************************************************************)
(* Uniform/LUT streamer: UploadUniforms.                                   *)
(***************************************************************************)
uniform_buffer_alignment == UniformMinAlignment
uniform_size_aligned_vs_pica == AlignUp(SizeofVSPicaUniformData, uniform_buffer_alignment)
uniform_size_aligned_vs == AlignUp(SizeofVSUniformData, uniform_buffer_alignment)
uniform_size_aligned_fs == AlignUp(SizeofFSUniformData, uniform_buffer_alignment)

\* The uniform bindings of the buffer descriptor set.
VSPicaBinding == 0
VSBinding == 1
FSBinding == 2

UploadsVsData_IgnoreWrap(dirty, invalidate) == dirty

\* if (vs_data_dirty || invalidate)
UploadsVsData(dirty, invalidate) == dirty \/ invalidate

UploadsFsData_OnlyOnWrap(dirty, invalidate) == invalidate

\* if (fs_data_dirty || invalidate)
UploadsFsData(dirty, invalidate) == dirty \/ invalidate

UploadsVsPica_Always(sync_vs_pica, invalidate) == TRUE

\* if (sync_vs_pica || invalidate)
UploadsVsPica(sync_vs_pica, invalidate) == sync_vs_pica \/ invalidate

\* One block in turn: memcpy to the mapped region at used_bytes, UpdateRange of
\* its binding to that place, used_bytes advanced by the block's aligned size.
UniformUpload(doit, name, binding, size, aligned, st) ==
    IF ~doit THEN st
    ELSE LET at == st.offset + st.used_bytes
         IN  [st EXCEPT
                !.writes = @ \o <<Event("Write", "uniform_buffer", name, binding, at, size),
                                  Event("UpdateRange", "uniform_buffer", name, binding,
                                        at, 0)>>,
                !.ranges = [@ EXCEPT ![binding] = at],
                !.used_bytes = @ + aligned]

UploadUniforms ==
    /\ pc = "UploadUniforms"
    /\ pc' = "DrawBatch"
    /\ LET sync_vs_pica == accelerate /\ pica.vs_setup.uniforms_dirty
       IN  IF ~sync_vs_pica /\ ~vs_data_dirty /\ ~fs_data_dirty
           THEN UNCHANGED <<pica, vs_data_dirty, fs_data_dirty, uniform_ranges, log>>
           ELSE \E m \in MapResults("uniform_buffer", uniform_buffer_alignment) :
                  LET up_vs   == UploadsVsData(vs_data_dirty, m.invalidate)
                      up_fs   == UploadsFsData(fs_data_dirty, m.invalidate)
                      up_pica == UploadsVsPica(sync_vs_pica, m.invalidate)
                      st == UniformUpload(up_pica, "vs_uniforms", VSPicaBinding,
                              SizeofVSPicaUniformData, uniform_size_aligned_vs_pica,
                              UniformUpload(up_fs, "fs_data", FSBinding,
                                SizeofFSUniformData, uniform_size_aligned_fs,
                                UniformUpload(up_vs, "vs_data", VSBinding,
                                  SizeofVSUniformData, uniform_size_aligned_vs,
                                  [writes |-> <<>>, ranges |-> uniform_ranges,
                                   used_bytes |-> 0, offset |-> m.offset])))
                  IN  /\ vs_data_dirty' = (vs_data_dirty /\ ~up_vs)
                      /\ fs_data_dirty' = (fs_data_dirty /\ ~up_fs)
                      /\ pica' = [pica EXCEPT !.vs_setup.uniforms_dirty = (@ /\ ~up_pica)]
                      /\ uniform_ranges' = st.ranges
                      /\ log' = log
                           \o <<MapEvent("uniform_buffer", m,
                                  uniform_size_aligned_vs_pica + uniform_size_aligned_vs
                                      + uniform_size_aligned_fs)>>
                           \o st.writes
                           \o <<CommitEvent("uniform_buffer", st.used_bytes)>>
    /\ UNCHANGED <<accelerate, is_indexed, regs, instance, env, memory, pipeline_info,
                   enable_attributes, binding_offsets, vertex_info, fs_data,
                   vertex_batch, result,
                   framebuffer, texture_set, scheduler, cmdbuf>>

(***************************************************************************)
(* Fixed-function state synchronizer: SyncDrawState.                       *)
(* r is regs.framebuffer: r.output_merger and r.framebuffer are the two    *)
(* register groups the source reads.                                       *)
(***************************************************************************)
ColorWriteMask_NoEmulation(r, inst) ==
    IF r.framebuffer.allow_color_write # 0
    THEN (r.output_merger.depth_color_mask \div 256) % 16
    ELSE 0

ColorWriteMask_IgnoreAllow(r, inst) ==
    IF (inst.NeedsLogicOpEmulation /\ ~r.output_merger.alphablend_enable)
           /\ r.output_merger.logic_op = "NoOp"
    THEN 0
    ELSE (r.output_merger.depth_color_mask \div 256) % 16

\* SyncLogicOp / SyncColorWriteMask
ColorWriteMask(r, inst) ==
    LET is_logic_op_emulated ==
            inst.NeedsLogicOpEmulation /\ ~r.output_merger.alphablend_enable
        is_logic_op_noop == r.output_merger.logic_op = "NoOp"
    IN  IF is_logic_op_emulated /\ is_logic_op_noop
        THEN 0
        ELSE IF r.framebuffer.allow_color_write # 0
             THEN (r.output_merger.depth_color_mask \div 256) % 16
             ELSE 0

\* SyncStencilTest: test_enable
StencilTestEnable(r) ==
    r.output_merger.stencil_test.enable /\ r.framebuffer.depth_format = "D24S8"

\* SyncStencilWriteMask
StencilWriteMask(r) ==
    IF r.framebuffer.allow_depth_stencil_write # 0
    THEN r.output_merger.stencil_test.write_mask
    ELSE 0

DepthTestEnable_NeedsAllowedWrite(r) ==
    \/ r.output_merger.depth_test_enable = 1
    \/ r.output_merger.depth_write_enable = 1
         /\ r.framebuffer.allow_depth_stencil_write # 0

\* SyncDepthTest: test_enabled
DepthTestEnable(r) ==
    r.output_merger.depth_test_enable = 1 \/ r.output_merger.depth_write_enable = 1

\* SyncDepthTest: compare_op
DepthCompareOp(r) ==
    IF r.output_merger.depth_test_enable = 1
    THEN r.output_merger.depth_test_func
    ELSE "Always"

\* SyncDepthWriteMask: write_enable
DepthWriteEnable(r) ==
    r.framebuffer.allow_depth_stencil_write # 0
        /\ r.output_merger.depth_write_enable # 0

SyncDrawStateResult_KeepMaskWhenDisallowed(info, r, cull_mode, inst) ==
    [info EXCEPT
       !.rasterization.cull_mode = cull_mode,
       !.rasterization.flip_viewport = r.framebuffer.is_flipped,
       !.blending.blend_enable = r.output_merger.alphablend_enable,
       !.blending.alpha_blending = r.output_merger.alpha_blending,
       !.dynamic.blend_color = r.output_merger.blend_const,
       !.blending.logic_op = r.output_merger.logic_op,
       !.blending.color_write_mask =
           IF (inst.NeedsLogicOpEmulation /\ ~r.output_merger.alphablend_enable)
                  /\ r.output_merger.logic_op = "NoOp"
           THEN 0
           ELSE IF r.framebuffer.allow_color_write # 0
                THEN (r.output_merger.depth_color_mask \div 256) % 16
                ELSE info.blending.color_write_mask,
       !.depth_stencil.stencil_test_enable = StencilTestEnable(r),
       !.depth_stencil.stencil_ops = r.output_merger.stencil_test.ops,
       !.dynamic.stencil_reference = r.output_merger.stencil_test.reference_value,
       !.dynamic.stencil_compare_mask = r.output_merger.stencil_test.input_mask,
       !.dynamic.stencil_write_mask = StencilWriteMask(r),
       !.depth_stencil.depth_test_enable = DepthTestEnable(r),
       !.depth_stencil.depth_compare_op = DepthCompareOp(r),
       !.depth_stencil.depth_write_enable = DepthWriteEnable(r)]

\* The descriptor after SyncDrawState, from the descriptor before it.
SyncDrawStateResult(info, r, cull_mode, inst) ==
    [info EXCEPT
       !.rasterization.cull_mode = cull_mode,
       !.rasterization.flip_viewport = r.framebuffer.is_flipped,
       !.blending.blend_enable = r.output_merger.alphablend_enable,
       !.blending.alpha_blending = r.output_merger.alpha_blending,
       !.dynamic.blend_color = r.output_merger.blend_const,
       !.blending.logic_op = r.output_merger.logic_op,
       !.blending.color_write_mask = ColorWriteMask(r, inst),
       !.depth_stencil.stencil_test_enable = StencilTestEnable(r),
       !.depth_stencil.stencil_ops = r.output_merger.stencil_test.ops,
       !.dynamic.stencil_reference = r.output_merger.stencil_test.reference_value,
       !.dynamic.stencil_compare_mask = r.output_merger.stencil_test.input_mask,
       !.dynamic.stencil_write_mask = StencilWriteMask(r),
       !.depth_stencil.depth_test_enable = DepthTestEnable(r),
       !.depth_stencil.depth_compare_op = DepthCompareOp(r),
       !.depth_stencil.depth_write_enable = DepthWriteEnable(r)]

SyncDrawState_ThenTextures ==
    /\ pc = "SyncDrawState"
    /\ pc' = "SyncTextureUnits"
    /\ pipeline_info' = SyncDrawStateResult(pipeline_info, regs.framebuffer,
                                            regs.rasterizer.cull_mode, instance)
    /\ UNCHANGED <<accelerate, is_indexed, regs, pica, instance, env, memory,
                   enable_attributes, binding_offsets, vertex_info, vs_data_dirty,
                   fs_data_dirty, fs_data, uniform_ranges, vertex_batch, result, log,
                   framebuffer, texture_set, scheduler, cmdbuf>>

SyncDrawState ==
    /\ pc = "SyncDrawState"
    /\ pc' = "AcquireFramebuffer"
    /\ pipeline_info' = SyncDrawStateResult(pipeline_info, regs.framebuffer,
                                            regs.rasterizer.cull_mode, instance)
    /\ UNCHANGED <<accelerate, is_indexed, regs, pica, instance, env, memory,
                   enable_attributes, binding_offsets, vertex_info, vs_data_dirty,
                   fs_data_dirty, fs_data, uniform_ranges, vertex_batch, result, log,
                   framebuffer, texture_set, scheduler, cmdbuf>>

(***************************************************************************)
(* Register accessors the vertex assembler uses. va is                     *)
(* regs.pipeline.vertex_attributes, vs is regs.vs.                         *)
(***************************************************************************)
NumLoaders == 12
NumLoaderComponents == 12
SizeofHardwareVertex == 88

GetNumElements(va, n) == va.attribute_format[n].num_elements

GetFormat(va, n) == va.attribute_format[n].type

GetElementSizeInBytes(va, n) ==
    CASE GetFormat(va, n) = "FLOAT" -> 4
      [] GetFormat(va, n) = "SHORT" -> 2
      [] OTHER -> 1

GetStride(va, n) == GetNumElements(va, n) * GetElementSizeInBytes(va, n)

IsDefaultAttribute(va, i) == i \in va.fixed_attribute_mask

GetRegisterForAttribute(vs, i) == vs.input_to_register[i]

\* loader.GetComponent(comp), comp counted from 0
GetComponent(loader, comp) == loader.components[comp + 1]

\* memory.GetPhysicalRef(addr).GetSize(): the guest-backed bytes from addr on
GetPhysicalRefSize(mem, addr) == IF addr < mem.size THEN mem.size - addr ELSE 0

\* A zero-initialised VertexAttribute / VertexBinding.
ZeroAttribute ==
    [binding |-> 0, location |-> 0, offset |-> 0, type |-> "BYTE", size |-> 0]

ZeroBinding == [binding |-> 0, fixed |-> 0, stride |-> 0]

(***************************************************************************)
(* MakeSoftwareVertexLayout.                                               *)
(***************************************************************************)
SoftwareAttributeSizes == <<4, 4, 2, 2, 2, 1, 4, 3>>

RECURSIVE SoftwareAttributeOffset(_)
SoftwareAttributeOffset(i) ==
    IF i = 0 THEN 0
    ELSE SoftwareAttributeOffset(i - 1) + SoftwareAttributeSizes[i] * 4

software_layout ==
    [binding_count |-> 1,
     attribute_count |-> 8,
     bindings |-> [b \in Locations |->
                     IF b < 1
                     THEN [binding |-> b, fixed |-> 0, stride |-> SizeofHardwareVertex]
                     ELSE ZeroBinding],
     attributes |-> [i \in Locations |->
                       IF i < 8
                       THEN [binding |-> 0, location |-> i,
                             offset |-> SoftwareAttributeOffset(i), type |-> "FLOAT",
                             size |-> SoftwareAttributeSizes[i + 1]]
                       ELSE ZeroAttribute]]

(***************************************************************************)
(* Vertex assembler: SetupVertexArray.                                     *)
(***************************************************************************)
RECURSIVE AnalyzeLoader_PadUnaligned(_, _, _, _, _, _)
AnalyzeLoader_PadUnaligned(comp, loader, va, vs, binding, st) ==
    IF ~(comp < loader.component_count /\ comp < NumLoaderComponents) THEN st
    ELSE LET attribute_index == GetComponent(loader, comp)
         IN  IF attribute_index >= 12
             THEN AnalyzeLoader_PadUnaligned(comp + 1, loader, va, vs, binding,
                    [st EXCEPT !.offset = @ + (attribute_index - 11) * 4])
             ELSE LET size == GetNumElements(va, attribute_index)
                      offset == AlignUp(st.offset,
                                        GetElementSizeInBytes(va, attribute_index))
                      input_reg == GetRegisterForAttribute(vs, attribute_index)
                  IN  IF size = 0
                      THEN AnalyzeLoader_PadUnaligned(comp + 1, loader, va, vs, binding, st)
                      ELSE AnalyzeLoader_PadUnaligned(comp + 1, loader, va, vs, binding,
                             [st EXCEPT
                                !.attributes[input_reg] =
                                    [binding |-> binding, location |-> input_reg,
                                     offset |-> offset,
                                     type |-> GetFormat(va, attribute_index),
                                     size |-> size],
                                !.enable[input_reg] = TRUE,
                                !.offset = offset + GetStride(va, attribute_index)])

\* The walk over one loader's component slots. st: the running offset, the
\* attributes and enable_attributes so far; binding is layout.binding_count.
RECURSIVE AnalyzeLoader(_, _, _, _, _, _)
AnalyzeLoader(comp, loader, va, vs, binding, st) ==
    IF ~(comp < loader.component_count /\ comp < NumLoaderComponents) THEN st
    ELSE LET attribute_index == GetComponent(loader, comp)
         IN  IF attribute_index >= 12
             THEN AnalyzeLoader(comp + 1, loader, va, vs, binding,
                    [st EXCEPT !.offset = AlignUp(@, 4) + (attribute_index - 11) * 4])
             ELSE LET size == GetNumElements(va, attribute_index)
                      offset == AlignUp(st.offset,
                                        GetElementSizeInBytes(va, attribute_index))
                      input_reg == GetRegisterForAttribute(vs, attribute_index)
                  IN  IF size = 0
                      THEN AnalyzeLoader(comp + 1, loader, va, vs, binding, st)
                      ELSE AnalyzeLoader(comp + 1, loader, va, vs, binding,
                             [st EXCEPT
                                !.attributes[input_reg] =
                                    [binding |-> binding, location |-> input_reg,
                                     offset |-> offset,
                                     type |-> GetFormat(va, attribute_index),
                                     size |-> size],
                                !.enable[input_reg] = TRUE,
                                !.offset = offset + GetStride(va, attribute_index)])

\* The bytes the bulk copy of one loader reads: data_size as computed, whatever
\* is available (the source reports the shortfall and copies data_size bytes).
LoaderCopySize(data_size, available) == data_size

RECURSIVE VertexCopies_AlignedSource(_, _, _, _, _, _)
VertexCopies_AlignedSource(vertex, vertex_num, src, dst, byte_count, aligned_stride) ==
    IF vertex >= vertex_num THEN <<>>
    ELSE <<Event("Copy", "stream_buffer", "vertex", src + vertex * aligned_stride,
                 dst + vertex * aligned_stride, byte_count)>>
         \o VertexCopies_AlignedSource(vertex + 1, vertex_num, src, dst, byte_count,
                                       aligned_stride)

RECURSIVE VertexCopies_PackedDestination(_, _, _, _, _, _)
VertexCopies_PackedDestination(vertex, vertex_num, src, dst, byte_count, aligned_stride) ==
    IF vertex >= vertex_num THEN <<>>
    ELSE <<Event("Copy", "stream_buffer", "vertex", src + vertex * byte_count,
                 dst + vertex * byte_count, byte_count)>>
         \o VertexCopies_PackedDestination(vertex + 1, vertex_num, src, dst, byte_count,
                                           aligned_stride)

\* The memcpy calls of one loader: one bulk copy, or one copy per vertex
\* when the stride had to be aligned up. src and dst are absolute.
RECURSIVE VertexCopies(_, _, _, _, _, _)
VertexCopies(vertex, vertex_num, src, dst, byte_count, aligned_stride) ==
    IF vertex >= vertex_num THEN <<>>
    ELSE <<Event("Copy", "stream_buffer", "vertex", src + vertex * byte_count,
                 dst + vertex * aligned_stride, byte_count)>>
         \o VertexCopies(vertex + 1, vertex_num, src, dst, byte_count, aligned_stride)

LoaderFlush_None(data_addr, data_size) == <<>>

\* res_cache.FlushRegion(data_addr, data_size)
LoaderFlush(data_addr, data_size) ==
    <<Event("FlushRegion", "res_cache", "vertex", 0, data_addr, data_size)>>

\* The loop over the attribute loaders. st: layout, enable, binding_offsets,
\* buffer_offset and the events so far; ctx: the guest memory and
\* instance.GetMinVertexStrideAlignment().
RECURSIVE SetupLoaders(_, _, _, _, _, _, _)
SetupLoaders(i, va, vs, info, array_offset, ctx, st) ==
    IF i > Len(va.attribute_loaders) THEN st
    ELSE LET loader == va.attribute_loaders[i]
         IN  IF loader.component_count = 0 \/ loader.byte_count = 0
             THEN SetupLoaders(i + 1, va, vs, info, array_offset, ctx, st)
             ELSE
               LET count == st.layout.binding_count
                   a == AnalyzeLoader(0, loader, va, vs, count,
                          [offset |-> 0, attributes |-> st.layout.attributes,
                           enable |-> st.enable])
                   data_addr == va.base_address + loader.data_offset
                                  + info.vs_input_index_min * loader.byte_count
                   vertex_num == info.vs_input_index_max - info.vs_input_index_min + 1
                   data_size == loader.byte_count * vertex_num
                   available == GetPhysicalRefSize(ctx.memory, data_addr)
                   aligned_stride == AlignUp(loader.byte_count, ctx.stride_alignment)
                   dst == array_offset + st.buffer_offset
                   copies ==
                       IF aligned_stride = loader.byte_count
                       THEN <<Event("Copy", "stream_buffer", "vertex", data_addr, dst,
                                    LoaderCopySize(data_size, available))>>
                       ELSE VertexCopies(0, vertex_num, data_addr, dst,
                                         loader.byte_count, aligned_stride)
               IN  SetupLoaders(i + 1, va, vs, info, array_offset, ctx,
                     [st EXCEPT
                        !.layout.attributes = a.attributes,
                        !.enable = a.enable,
                        !.layout.bindings[count] =
                            [binding |-> count, fixed |-> 0, stride |-> aligned_stride],
                        !.layout.binding_count = count + 1,
                        !.binding_offsets[count] = dst,
                        !.buffer_offset = @ + AlignUp(aligned_stride * vertex_num, 4),
                        !.events = @ \o LoaderFlush(data_addr, data_size)
                                     \o (IF available < data_size
                                         THEN <<Event("LogError", "guest_memory",
                                                      "vertex", 0, data_addr, data_size)>>
                                         ELSE <<>>)
                                     \o copies])

(***************************************************************************)
(* Vertex assembler: SetupFixedAttribs.                                    *)
(***************************************************************************)
\* The first loop: every guest default attribute whose register no loader
\* resolved is written after the ones before it and attached to the binding.
RECURSIVE FixedDefaults(_, _, _, _, _, _)
FixedDefaults(i, va, vs, fixed_offset, binding, st) ==
    IF i >= NumAttributes THEN st
    ELSE LET reg == GetRegisterForAttribute(vs, i)
             data_size == 4 * 4
         IN  IF IsDefaultAttribute(va, i) /\ ~st.enable[reg]
             THEN FixedDefaults(i + 1, va, vs, fixed_offset, binding,
                    [st EXCEPT
                       !.events = Append(@, Event("Write", "stream_buffer",
                                                  "input_default_attributes", i,
                                                  fixed_offset + st.offset, data_size)),
                       !.attributes[reg] =
                           [binding |-> binding, location |-> reg, offset |-> st.offset,
                            type |-> "FLOAT", size |-> 4],
                       !.offset = @ + data_size,
                       !.enable[reg] = TRUE])
             ELSE FixedDefaults(i + 1, va, vs, fixed_offset, binding, st)

UnusedAttributes_KeepStale(attributes, enable, binding) == attributes

\* The second loop: every register still unresolved reads the constant at offset 0.
UnusedAttributes(attributes, enable, binding) ==
    [i \in Locations |->
       IF ~enable[i]
       THEN [binding |-> binding, location |-> i, offset |-> 0, type |-> "FLOAT",
             size |-> 4]
       ELSE attributes[i]]

FixedBinding_NotFixed(binding, offset) ==
    [binding |-> binding, fixed |-> 0, stride |-> offset]

\* Define the fixed+default binding
FixedBinding(binding, offset) == [binding |-> binding, fixed |-> 1, stride |-> offset]

\* sizeof(Common::Vec4f) * 16, the size SetupFixedAttribs maps
FixedAttribsMapSize == 16 * SizeofVec4f

\* st: layout, enable, binding_offsets and the events so far; fm: what Map gave.
SetupFixedAttribs(va, vs, fm, st) ==
    LET count == st.layout.binding_count
        d == FixedDefaults(0, va, vs, fm.offset, count,
               [offset |-> SizeofVec4f,
                attributes |-> st.layout.attributes,
                enable |-> st.enable,
                events |-> st.events
                    \o <<MapEvent("stream_buffer", fm, FixedAttribsMapSize),
                         Event("Write", "stream_buffer", "default_attrib", 0,
                               fm.offset, SizeofVec4f)>>])
    IN  [st EXCEPT
           !.binding_offsets[count] = fm.offset,
           !.layout.attributes = UnusedAttributes(d.attributes, d.enable, count),
           !.enable = d.enable,
           !.layout.bindings[count] = FixedBinding(count, d.offset),
           !.layout.binding_count = count + 1,
           !.events = Append(d.events, CommitEvent("stream_buffer", d.offset))]

SetupVertexArray ==
    /\ pc = "SetupVertexArray"
    /\ pc' = "SetupShaders"
    /\ \E m \in MapResults("stream_buffer", 16) :
         LET va == regs.pipeline.vertex_attributes
             st0 == [layout |-> [pipeline_info.vertex_layout EXCEPT
                                   !.binding_count = 0, !.attribute_count = 16],
                     enable |-> [r \in Locations |-> FALSE],
                     binding_offsets |-> binding_offsets,
                     buffer_offset |-> 0,
                     events |-> <<MapEvent("stream_buffer", m, vertex_info.vs_input_size)>>]
             st1 == SetupLoaders(1, va, regs.vs, vertex_info, m.offset,
                      [memory |-> memory,
                       stride_alignment |-> instance.MinVertexStrideAlignment], st0)
             st2 == [st1 EXCEPT
                       !.events = Append(@, CommitEvent("stream_buffer", st1.buffer_offset))]
         IN  \E fm \in MapNext("stream_buffer", m.offset + st1.buffer_offset, 0) :
               LET st3 == SetupFixedAttribs(va, regs.vs, fm, st2)
               IN  /\ pipeline_info' = [pipeline_info EXCEPT !.vertex_layout = st3.layout]
                   /\ enable_attributes' = st3.enable
                   /\ binding_offsets' = st3.binding_offsets
                   /\ log' = log \o st3.events
    /\ UNCHANGED <<accelerate, is_indexed, regs, pica, instance, env, memory, vertex_info,
                   vs_data_dirty, fs_data_dirty, fs_data, uniform_ranges, vertex_batch,
                   result,
                   framebuffer, texture_set, scheduler, cmdbuf>>

(***************************************************************************)
(* RasterizerAccelerated::AnalyzeVertexArray, of the base class, after the   *)
(* contract of the vertex assembler and of the surface cache. pl is         *)
(* regs.pipeline.                                                           *)
(***************************************************************************)
\* Bytes of guest index data a draw of num_vertices indices holds.
IndexDataSize(pl) == pl.num_vertices * (IF pl.index_array.format # 0 THEN 2 ELSE 1)

\* The guest address of the index data.
IndexDataAddress(pl) == pl.vertex_attributes.base_address + pl.index_array.offset

\* Sum over the loaders of the bytes their vertices take in the stream buffer.
RECURSIVE VsInputSize(_, _, _, _)
VsInputSize(i, va, vertex_num, stride_alignment) ==
    IF i > Len(va.attribute_loaders) THEN 0
    ELSE LET loader == va.attribute_loaders[i]
             rest == VsInputSize(i + 1, va, vertex_num, stride_alignment)
         IN  IF loader.component_count = 0 THEN rest
             ELSE AlignUp(AlignUp(loader.byte_count, stride_alignment) * vertex_num, 4)
                      + rest

\* The index range the draw touches and the stream-buffer bytes it needs. An
\* indexed draw flushes the index data out of the surface cache, then scans it.
AnalyzeVertexArray(indexed, pl, mem, stride_alignment) ==
    LET vertex_min == IF indexed THEN mem.index_min ELSE pl.vertex_offset
        vertex_max == IF indexed THEN mem.index_max
                      ELSE pl.vertex_offset + pl.num_vertices - 1
        vertex_num == vertex_max - vertex_min + 1
    IN  [info |-> [vs_input_index_min |-> vertex_min,
                   vs_input_index_max |-> vertex_max,
                   vs_input_size |-> VsInputSize(1, pl.vertex_attributes, vertex_num,
                                                 stride_alignment)],
         events |-> IF indexed
                    THEN <<Event("FlushRegion", "res_cache", "index", 0,
                                 IndexDataAddress(pl), IndexDataSize(pl)),
                           Event("Read", "guest_memory", "index",
                                 IndexDataAddress(pl), 0, IndexDataSize(pl))>>
                    ELSE <<>>]

(***************************************************************************)
(* AccelerateDrawBatch: the entry of a hardware-shader draw.                *)
(***************************************************************************)
\* The geometry-shader configurations AccelerateDrawBatch turns down.
GsRejected(pl) ==
    pl.use_gs # "No"
        /\ (pl.gs_config.mode # "Point" \/ pl.triangle_topology # "Shader")

\* A triangle fan on an instance without triangle-fan support.
FanRejected(pl, inst) ==
    pl.triangle_topology = "Fan" /\ ~inst.IsTriangleFanSupported

AccelerateDrawBatch ==
    /\ pc = "idle"
    /\ cmdbuf' = <<>>
    /\ \E indexed \in BOOLEAN :
         LET pl == regs.pipeline
             a == AnalyzeVertexArray(indexed, pl, memory, instance.MinVertexStrideAlignment)
         IN  /\ is_indexed' = indexed
             /\ accelerate' = TRUE
             /\ IF GsRejected(pl)
                THEN /\ pc' = "done"
                     /\ result' = FALSE
                     /\ log' = <<>>
                     /\ UNCHANGED <<pipeline_info, vertex_info>>
                ELSE /\ pipeline_info' =
                          [pipeline_info EXCEPT !.rasterization.topology =
                                                    pl.triangle_topology]
                     /\ IF FanRejected(pl, instance)
                        THEN /\ pc' = "done"
                             /\ result' = FALSE
                             /\ log' = <<>>
                             /\ UNCHANGED vertex_info
                        ELSE /\ pc' = "SetupVertexArray"
                             /\ vertex_info' = a.info
                             /\ log' = a.events
                             /\ UNCHANGED result
    /\ UNCHANGED <<regs, pica, instance, env, memory, enable_attributes, binding_offsets,
                   vs_data_dirty, fs_data_dirty, fs_data, uniform_ranges, vertex_batch,
                   framebuffer, texture_set, scheduler>>

(***************************************************************************)
(* SetupVertexShader and SetupGeometryShader.                               *)
(***************************************************************************)
GeometryShaderRequest_AnyGS(r, inst) ==
    IF r.lighting.disable \/ inst.IsFragmentShaderBarycentricSupported
    THEN "UseTrivialGeometryShader"
    ELSE "UseFixedGeometryShader"

\* What SetupGeometryShader asks the pipeline cache for, "" when it gives up.
GeometryShaderRequest(r, inst) ==
    IF r.pipeline.use_gs # "No" THEN ""
    ELSE IF r.lighting.disable \/ inst.IsFragmentShaderBarycentricSupported
         THEN "UseTrivialGeometryShader"
         ELSE "UseFixedGeometryShader"

SetupShaders ==
    /\ pc = "SetupShaders"
    /\ \E vs_ok \in env.shader_ready, gs_ok \in env.shader_ready :
         LET request == GeometryShaderRequest(regs, instance)
             vs_event == Event("UseProgrammableVertexShader", "pipeline_cache", "", 0, 0,
                               IF vs_ok THEN 1 ELSE 0)
             gs_event == Event(request, "pipeline_cache", "", 0, 0,
                               IF request = "UseFixedGeometryShader" /\ ~gs_ok
                               THEN 0 ELSE 1)
         IN  IF ~vs_ok
             THEN /\ pc' = "done"
                  /\ result' = FALSE
                  /\ log' = Append(log, vs_event)
             ELSE IF request = ""
                  THEN /\ pc' = "done"
                       /\ result' = FALSE
                       /\ log' = Append(log, vs_event)
                  ELSE IF request = "UseFixedGeometryShader" /\ ~gs_ok
                       THEN /\ pc' = "done"
                            /\ result' = FALSE
                            /\ log' = log \o <<vs_event, gs_event>>
                       ELSE /\ pc' = "SyncDrawState"
                            /\ log' = log \o <<vs_event, gs_event>>
                            /\ UNCHANGED result
    /\ UNCHANGED <<accelerate, is_indexed, regs, pica, instance, env, memory,
                   pipeline_info, enable_attributes, binding_offsets, vertex_info,
                   vs_data_dirty, fs_data_dirty, fs_data, uniform_ranges, vertex_batch,
                   framebuffer, texture_set, scheduler, cmdbuf>>

(***************************************************************************)
(* The software vertex path: AddTriangle batches three vertices,           *)
(* DrawTriangles draws the batch.                                           *)
(***************************************************************************)
\* RasterizerAccelerated::AddTriangle, of the base class.
AddTriangle ==
    /\ pc = "idle"
    /\ vertex_batch + 3 <= MaxVertexBatch
    /\ vertex_batch' = vertex_batch + 3
    /\ UNCHANGED <<pc, accelerate, is_indexed, regs, pica, instance, env, memory,
                   pipeline_info, enable_attributes, binding_offsets, vertex_info,
                   vs_data_dirty, fs_data_dirty, fs_data, uniform_ranges, result, log,
                   framebuffer, texture_set, scheduler, cmdbuf>>

SoftwareDrawState_KeepLayout(info) ==
    [info EXCEPT !.rasterization.topology = "List"]

\* DrawTriangles: the topology and the vertex layout of a software batch.
SoftwareDrawState(info) ==
    [info EXCEPT !.rasterization.topology = "List",
                 !.vertex_layout = software_layout]

DrawTriangles ==
    /\ pc = "idle"
    /\ accelerate' = FALSE
    /\ is_indexed' = FALSE
    /\ log' = <<>>
    /\ cmdbuf' = <<>>
    /\ IF vertex_batch = 0
       THEN /\ pc' = "done"
            /\ UNCHANGED pipeline_info
       ELSE /\ pc' = "SyncDrawState"
            /\ pipeline_info' = SoftwareDrawState(pipeline_info)
    /\ UNCHANGED <<regs, pica, instance, env, memory, enable_attributes, binding_offsets,
                   vertex_info, vs_data_dirty, fs_data_dirty, fs_data, uniform_ranges,
                   vertex_batch, result,
                   framebuffer, texture_set, scheduler>>

(***************************************************************************)
(* Draw, from the framebuffer lookup to the scissor uniforms.               *)
(***************************************************************************)
\* regs.framebuffer.IsShadowRendering(), an accessor of the register file.
IsShadowRendering(r) == r.output_merger.fragment_operation_mode = "Shadow"

\* regs.framebuffer.HasStencil(), an accessor of the register file.
HasStencil(r) == r.framebuffer.depth_format = "D24S8"

\* pipeline_info.IsDepthWriteEnabled(), of the descriptor: a depth write (which
\* needs the depth test) or a stencil write is enabled.
IsDepthWriteEnabled(info) ==
    \/ info.depth_stencil.depth_test_enable /\ info.depth_stencil.depth_write_enable
    \/ info.depth_stencil.stencil_test_enable /\ info.dynamic.stencil_write_mask # 0

UsingColorFb_AddressOnly(r, info) ==
    r.framebuffer.color_buffer_address # 0

\* Draw: using_color_fb
UsingColorFb(r, info) ==
    LET write_color_fb == IsShadowRendering(r) \/ info.blending.color_write_mask # 0
    IN  r.framebuffer.color_buffer_address # 0 /\ write_color_fb

\* Draw: using_depth_fb
UsingDepthFb(r, info) ==
    LET write_depth_fb == IsDepthWriteEnabled(info)
    IN  /\ ~IsShadowRendering(r)
        /\ r.framebuffer.depth_buffer_address # 0
        /\ \/ write_depth_fb
           \/ r.output_merger.depth_test_enable # 0
           \/ HasStencil(r) /\ info.depth_stencil.stencil_test_enable

FramebufferIsNull_Never(fb) == FALSE

\* Draw: !framebuffer->Handle()
FramebufferIsNull(fb) == fb.handle_null

GetFramebufferSurfacesEvent(using_color_fb, using_depth_fb) ==
    Event("GetFramebufferSurfaces", "res_cache", "",
          IF using_color_fb THEN 1 ELSE 0, IF using_depth_fb THEN 1 ELSE 0, 0)

AcquireFramebuffer ==
    /\ pc = "AcquireFramebuffer"
    /\ log' = Append(log, GetFramebufferSurfacesEvent(
                             UsingColorFb(regs.framebuffer, pipeline_info),
                             UsingDepthFb(regs.framebuffer, pipeline_info)))
    /\ \E fb \in env.framebuffers :
         IF FramebufferIsNull(fb)
         THEN /\ pc' = "done"
              /\ result' = TRUE
              /\ framebuffer' = fb
              /\ UNCHANGED <<fs_data, fs_data_dirty, pipeline_info>>
         ELSE /\ pc' = "SyncTextureUnits"
              /\ framebuffer' = fb
              /\ pipeline_info' = [pipeline_info EXCEPT !.attachments = fb.format]
              /\ IF fs_data.scissor # fb.scissor
                 THEN /\ fs_data' = [fs_data EXCEPT !.scissor = fb.scissor]
                      /\ fs_data_dirty' = TRUE
                 ELSE UNCHANGED <<fs_data, fs_data_dirty>>
              /\ UNCHANGED result
    /\ UNCHANGED <<accelerate, is_indexed, regs, pica, instance, env, memory,
                   enable_attributes, binding_offsets, vertex_info,
                   vs_data_dirty, uniform_ranges, vertex_batch,
                   texture_set, scheduler, cmdbuf>>

(***************************************************************************)
(* Resource binder: SyncTextureUnits, BindShadowCube, BindTextureCube,      *)
(* SyncUtilityTextures. A surface of the cache is named by the guest        *)
(* address it was resolved from (0 names the null surface); a view is named *)
(* by its kind and its surface, a sampler by the configuration it was made  *)
(* for (0 names the null sampler).                                          *)
(***************************************************************************)
NumTextureUnits == 3
TextureUnits == 0 .. (NumTextureUnits - 1)

\* Pica::TexturingRegs::CubeFace, in the order of its values 0..5.
CubeFaces ==
    <<"PositiveX", "NegativeX", "PositiveY", "NegativeY", "PositiveZ", "NegativeZ">>

View(kind, surface) == [kind |-> kind, surface |-> surface]

\* The three views of a surface.
ImageView(surface) == View("image", surface)
CopyImageView(surface) == View("copy", surface)
StorageView(surface) == View("storage", surface)

\* VideoCore::NULL_SURFACE_ID, VideoCore::NULL_SAMPLER_ID
NULL_SURFACE_ID == 0
NULL_SAMPLER_ID == 0

\* The view a framebuffer without a color attachment answers with.
NoView == View("none", 0)

\* A binding nothing was written to.
Unset == [view |-> View("unset", 0), sampler |-> 0 - 1]

\* res_cache.GetSampler(texture.config): the sampler made for the configuration.
GetSampler(config) == config.sampler

\* regs.texturing.GetCubePhysicalAddress(face)
GetCubePhysicalAddress(tex, face) == tex.cube_address[face]

\* update_queue.AddImageSampler(set, binding, array_index, view, sampler)
AddImageSampler(binding, array_index, view, sampler) ==
    Event("AddImageSampler", "update_queue", [view |-> view, sampler |-> sampler],
          binding, array_index, 0)

\* res_cache.GetTextureSurface of the texture (or surface parameters) at address.
GetTextureSurface(texture_index, address) ==
    Event("GetTextureSurface", "res_cache", [physical_address |-> address],
          texture_index, 0, 0)

\* surface.flags |= ShadowMap
TagShadowMap(surface) == Event("ShadowMap", "surface", [surface |-> surface], 0, 0, 0)

BindNullTexture_Skip(texture_index) == <<>>

\* SyncTextureUnits, a disabled unit: the null surface with the null sampler.
BindNullTexture(texture_index) ==
    <<AddImageSampler(texture_index, 0, ImageView(NULL_SURFACE_ID), NULL_SAMPLER_ID)>>

\* SyncTextureUnits, unit 0 as Shadow2D: the storage view of its surface.
BindShadow2D(texture) ==
    <<GetTextureSurface(0, texture.config.address),
      TagShadowMap(texture.config.address),
      AddImageSampler(0, 0, StorageView(texture.config.address),
                      GetSampler(texture.config))>>

\* BindShadowCube: one surface and one array element of binding 0 per face.
RECURSIVE BindShadowCubeFaces(_, _, _)
BindShadowCubeFaces(face, tex, texture) ==
    IF face > Len(CubeFaces) THEN <<>>
    ELSE LET binding == face - 1
             address == GetCubePhysicalAddress(tex, CubeFaces[face])
         IN  <<GetTextureSurface(0, address),
               TagShadowMap(address),
               AddImageSampler(0, binding, StorageView(address),
                               GetSampler(texture.config))>>
                 \o BindShadowCubeFaces(face + 1, tex, texture)

BindShadowCube(tex, texture) == BindShadowCubeFaces(1, tex, texture)

TextureCubeConfig_MaxLevelAsLevels(tex, texture) ==
    [px |-> GetCubePhysicalAddress(tex, "PositiveX"),
     nx |-> GetCubePhysicalAddress(tex, "NegativeX"),
     py |-> GetCubePhysicalAddress(tex, "PositiveY"),
     ny |-> GetCubePhysicalAddress(tex, "NegativeY"),
     pz |-> GetCubePhysicalAddress(tex, "PositiveZ"),
     nz |-> GetCubePhysicalAddress(tex, "NegativeZ"),
     width |-> texture.config.width,
     levels |-> texture.config.lod.max_level,
     format |-> texture.format]

\* BindTextureCube: config
TextureCubeConfig(tex, texture) ==
    [px |-> GetCubePhysicalAddress(tex, "PositiveX"),
     nx |-> GetCubePhysicalAddress(tex, "NegativeX"),
     py |-> GetCubePhysicalAddress(tex, "PositiveY"),
     ny |-> GetCubePhysicalAddress(tex, "NegativeY"),
     pz |-> GetCubePhysicalAddress(tex, "PositiveZ"),
     nz |-> GetCubePhysicalAddress(tex, "NegativeZ"),
     width |-> texture.config.width,
     levels |-> texture.config.lod.max_level + 1,
     format |-> texture.format]

\* The surface the cache keeps for a cube: named by the address of its first face.
TextureCubeSurface(config) == config.px

\* BindTextureCube: one cube resolution, one binding.
BindTextureCube(tex, texture) ==
    LET config == TextureCubeConfig(tex, texture)
    IN  <<Event("GetTextureCube", "res_cache", config, 0, 0, 0),
          AddImageSampler(0, 0, ImageView(TextureCubeSurface(config)),
                          GetSampler(texture.config))>>

TextureView_NoFeedbackCheck(surface, color_view) == ImageView(surface)

\* SyncTextureUnits: texture_view
TextureView(surface, color_view) ==
    LET is_feedback_loop == color_view = ImageView(surface)
    IN  IF is_feedback_loop THEN CopyImageView(surface) ELSE ImageView(surface)

\* SyncTextureUnits, the texture the rasterizer cache provides.
BindTextureSurface(texture_index, texture, fb) ==
    <<GetTextureSurface(texture_index, texture.config.address),
      AddImageSampler(texture_index, 0,
                      TextureView(texture.config.address, fb.color_view),
                      GetSampler(texture.config))>>

BindTextureUnit_AnyUnit(texture_index, tex, fb) ==
    LET texture == tex.textures[texture_index]
        type == texture.config.type
    IN  IF ~texture.enabled THEN BindNullTexture(texture_index)
        ELSE IF type = "Shadow2D" THEN BindShadow2D(texture)
        ELSE IF type = "ShadowCube" THEN BindShadowCube(tex, texture)
        ELSE IF type = "TextureCube" THEN BindTextureCube(tex, texture)
        ELSE BindTextureSurface(texture_index, texture, fb)

\* SyncTextureUnits: one turn of the loop over the units.
BindTextureUnit(texture_index, tex, fb) ==
    LET texture == tex.textures[texture_index]
        type == texture.config.type
    IN  IF ~texture.enabled THEN BindNullTexture(texture_index)
        ELSE IF texture_index = 0 /\ type = "Shadow2D" THEN BindShadow2D(texture)
        ELSE IF texture_index = 0 /\ type = "ShadowCube" THEN BindShadowCube(tex, texture)
        ELSE IF texture_index = 0 /\ type = "TextureCube" THEN BindTextureCube(tex, texture)
        ELSE BindTextureSurface(texture_index, texture, fb)

RECURSIVE BindTextureUnits(_, _, _)
BindTextureUnits(texture_index, tex, fb) ==
    IF texture_index >= NumTextureUnits THEN <<>>
    ELSE BindTextureUnit(texture_index, tex, fb)
             \o BindTextureUnits(texture_index + 1, tex, fb)

\* SyncUtilityTextures: the color attachment as a storage image, when shadow rendering.
SyncUtilityTextures(r, fb) ==
    IF ~IsShadowRendering(r) THEN <<>>
    ELSE <<Event("AddStorageImage", "update_queue", [view |-> fb.color_view], 0, 0, 0)>>

\* A descriptor set none of whose bindings was written.
EmptyTextureSet == [b \in TextureUnits |-> [a \in 0 .. (Len(CubeFaces) - 1) |-> Unset]]

\* The set after the writes among events, in order.
RECURSIVE WriteTextureSet(_, _, _)
WriteTextureSet(set, events, i) ==
    IF i > Len(events) THEN set
    ELSE LET e == events[i]
         IN  WriteTextureSet(IF e.ev = "AddImageSampler"
                             THEN [set EXCEPT ![e.idx][e.at] = e.id]
                             ELSE set,
                             events, i + 1)

\* The texture set the constructor leaves: every unit bound to the null surface.
ConstructedTextureSet ==
    WriteTextureSet(EmptyTextureSet,
                    [i \in 1 .. NumTextureUnits |->
                       AddImageSampler(i - 1, 0, ImageView(NULL_SURFACE_ID),
                                       NULL_SAMPLER_ID)], 1)

\* Draw, from the texture units to the fragment shader.
SyncTextureUnits ==
    /\ pc = "SyncTextureUnits"
    /\ pc' = "SyncAndUploadLUTs"
    /\ \E fresh \in env.acquire_fresh :
         LET acquired == IF fresh THEN EmptyTextureSet ELSE texture_set
             binds == BindTextureUnits(0, regs.texturing, framebuffer)
         IN  /\ texture_set' = WriteTextureSet(acquired, binds, 1)
             /\ log' = log \o <<Event("Acquire", "pipeline_cache", "Texture", 0, 0, 0)>>
                           \o binds
                           \o SyncUtilityTextures(regs.framebuffer, framebuffer)
                           \o <<Event("UseFragmentShader", "pipeline_cache", "", 0, 0, 0)>>
    /\ UNCHANGED <<accelerate, is_indexed, regs, pica, instance, env, memory, pipeline_info,
                   enable_attributes, binding_offsets, vertex_info, vs_data_dirty,
                   fs_data_dirty, fs_data, uniform_ranges, vertex_batch, result,
                   framebuffer, scheduler, cmdbuf>>

(***************************************************************************)
(* Draw, the vertex batch: AccelerateDrawBatchInternal with                 *)
(* SetupIndexArray, or the software batch.                                  *)
(***************************************************************************)
\* SetupIndexArray: native_u8
NativeU8(pl, inst) == pl.index_array.format = 0 /\ inst.IsIndexTypeUint8Supported

\* SetupIndexArray: index_buffer_size
IndexBufferSize(pl, inst) == pl.num_vertices * (IF NativeU8(pl, inst) THEN 1 ELSE 2)

\* Bytes of guest index data SetupIndexArray reads: one byte per index when
\* 8-bit indices are widened, index_buffer_size bytes when they are copied.
IndexBytesRead(pl, inst) ==
    IF pl.index_array.format = 0 /\ ~NativeU8(pl, inst)
    THEN pl.num_vertices
    ELSE IndexBufferSize(pl, inst)

\* A closure handed to scheduler.Record: the lambda (kind) and the values its
\* capture list copied.
Closure(kind, captured) == [kind |-> kind, captured |-> captured]

\* scheduler.Record(closure)
RecordEvent(closure) == Event("Record", "scheduler", closure, 0, 0, 0)

\* SetupIndexArray: index_type
IndexType(pl, inst) == IF NativeU8(pl, inst) THEN "eUint8EXT" ELSE "eUint16"

\* SetupIndexArray: the lambda [this, index_offset, index_type].
BindIndexBufferClosure(pl, inst, im) ==
    Closure("BindIndexBuffer",
            [index_offset |-> im.offset, index_type |-> IndexType(pl, inst)])

\* SetupIndexArray, im: what stream_buffer.Map gave.
SetupIndexArray(pl, inst, im) ==
    <<MapEvent("stream_buffer", im, IndexBufferSize(pl, inst)),
      Event("Copy", "stream_buffer", "index", IndexDataAddress(pl), im.offset,
            IndexBytesRead(pl, inst)),
      CommitEvent("stream_buffer", IndexBufferSize(pl, inst)),
      RecordEvent(BindIndexBufferClosure(pl, inst, im))>>

WaitBuilt_AsyncOnly(pl, inst) == ~inst.async_shaders

\* AccelerateDrawBatchInternal: wait_built
WaitBuilt(pl, inst) == ~inst.async_shaders \/ pl.num_vertices <= 6

\* pipeline_cache.BindPipeline(pipeline_info, wait_built), and what it returned.
BindPipelineEvent(wait_built, bound) ==
    Event("BindPipeline", "pipeline_cache", "", IF wait_built THEN 1 ELSE 0, 0,
          IF bound THEN 1 ELSE 0)

\* AccelerateDrawBatchInternal: params
DrawParams(pl, info, layout, offsets, indexed) ==
    [vertex_count |-> pl.num_vertices,
     vertex_offset |-> 0 - info.vs_input_index_min,
     binding_count |-> layout.binding_count,
     bindings |-> offsets,
     is_indexed |-> indexed]

\* AccelerateDrawBatchInternal: the lambda [this, params].
AcceleratedDrawClosure(pl, info, layout, offsets, indexed) ==
    Closure("AcceleratedDraw", DrawParams(pl, info, layout, offsets, indexed))

\* Draw: the lambda [this, offset, vertex_count] of the software batch.
SoftwareDrawClosure(offset, vertex_count) ==
    Closure("SoftwareDraw", [offset |-> offset, vertex_count |-> vertex_count])

\* A call the command buffer receives.
Call(name, args) == [call |-> name, args |-> args]

\* The body of SetupIndexArray's lambda; this is the rasterizer when it runs.
ExecuteBindIndexBuffer(captured, this) ==
    <<Call("bindIndexBuffer", [buffer |-> this.stream_buffer,
                               offset |-> captured.index_offset,
                               index_type |-> captured.index_type])>>

ExecuteAcceleratedDraw_ByReference(params, this) ==
    <<Call("bindVertexBuffers",
           [first |-> 0, count |-> this.pipeline_info.vertex_layout.binding_count,
            buffers |-> this.vertex_buffers, offsets |-> this.binding_offsets]),
      IF params.is_indexed
      THEN Call("drawIndexed", [count |-> this.regs.pipeline.num_vertices,
                                vertex_offset |-> 0 - this.vertex_info.vs_input_index_min])
      ELSE Call("draw", [count |-> this.regs.pipeline.num_vertices])>>

\* The body of AccelerateDrawBatchInternal's lambda.
ExecuteAcceleratedDraw(params, this) ==
    <<Call("bindVertexBuffers",
           [first |-> 0, count |-> params.binding_count,
            buffers |-> this.vertex_buffers, offsets |-> params.bindings]),
      IF params.is_indexed
      THEN Call("drawIndexed", [count |-> params.vertex_count,
                                vertex_offset |-> params.vertex_offset])
      ELSE Call("draw", [count |-> params.vertex_count])>>

\* The body of the lambda of Draw's software batch.
ExecuteSoftwareDraw(captured, this) ==
    <<Call("bindVertexBuffers",
           [first |-> 0, count |-> 1, buffers |-> this.stream_buffer,
            offsets |-> captured.offset]),
      Call("draw", [count |-> captured.vertex_count])>>

(***************************************************************************)
(* The scheduler. Record executes the closure at once when the scheduler    *)
(* has no worker thread; otherwise it appends it to the current chunk,      *)
(* which runs later: when the chunk is full or when the work is dispatched. *)
(* An entry of the chunk keeps, next to the closure, the scratch state of   *)
(* the rasterizer at the time of the Record call (recorded), which the      *)
(* closure itself cannot see.                                               *)
(***************************************************************************)
\* Commands a chunk holds before Record dispatches it.
MaxRecorded == 2

\* The rasterizer as a running command sees it through its captured this.
This ==
    [stream_buffer |-> "stream_buffer",
     vertex_buffers |-> "stream_buffer",
     regs |-> regs,
     pipeline_info |-> pipeline_info,
     binding_offsets |-> binding_offsets,
     vertex_info |-> vertex_info]

Entry(closure, recorded) == [command |-> closure, recorded |-> recorded]

\* The calls a command makes when it runs, each with the entry's recorded state.
RunCommand(entry, this) ==
    LET c == entry.command
        calls == CASE c.kind = "BindIndexBuffer" -> ExecuteBindIndexBuffer(c.captured, this)
                   [] c.kind = "AcceleratedDraw" -> ExecuteAcceleratedDraw(c.captured, this)
                   [] c.kind = "SoftwareDraw" -> ExecuteSoftwareDraw(c.captured, this)
    IN  [k \in 1 .. Len(calls) |->
           [call |-> calls[k].call, args |-> calls[k].args,
            kind |-> c.kind, recorded |-> entry.recorded]]

RECURSIVE RunCommands(_, _, _)
RunCommands(entries, i, this) ==
    IF i > Len(entries) THEN <<>>
    ELSE RunCommand(entries[i], this) \o RunCommands(entries, i + 1, this)

\* Scheduler::Record; st is the chunk and the calls made so far.
Record(st, entry, this, use_worker_thread) ==
    IF ~use_worker_thread
    THEN [scheduler |-> st.scheduler, cmdbuf |-> st.cmdbuf \o RunCommand(entry, this)]
    ELSE IF Len(st.scheduler) < MaxRecorded
         THEN [scheduler |-> Append(st.scheduler, entry), cmdbuf |-> st.cmdbuf]
         ELSE [scheduler |-> <<entry>>,
               cmdbuf |-> st.cmdbuf \o RunCommands(st.scheduler, 1, this)]

RECURSIVE RecordAll(_, _, _, _, _)
RecordAll(st, entries, i, this, use_worker_thread) ==
    IF i > Len(entries) THEN st
    ELSE RecordAll(Record(st, entries[i], this, use_worker_thread), entries, i + 1,
                   this, use_worker_thread)

\* The worker thread runs the chunk.
DispatchWork ==
    /\ env.use_worker_thread
    /\ scheduler # <<>>
    /\ cmdbuf' = RunCommands(scheduler, 1, This)
    /\ scheduler' = <<>>
    /\ UNCHANGED <<pc, accelerate, is_indexed, regs, pica, instance, env, memory,
                   pipeline_info, enable_attributes, binding_offsets, vertex_info,
                   vs_data_dirty, fs_data_dirty, fs_data, uniform_ranges, vertex_batch,
                   result, log, framebuffer, texture_set>>

(***************************************************************************)
(* Draw, from the render pass to the return.                                *)
(***************************************************************************)
BeginRenderingEvent == Event("BeginRendering", "renderpass_cache", "", 0, 0, 0)

\* AccelerateDrawBatchInternal: what it asks of its collaborators and the
\* closures it records; im is the Map of SetupIndexArray, ready is what
\* BindPipeline returns.
AccelerateDrawBatchInternal(im, ready) ==
    LET pl == regs.pipeline
        index_closure == BindIndexBufferClosure(pl, instance, im)
        draw_closure == AcceleratedDrawClosure(pl, vertex_info,
                            pipeline_info.vertex_layout, binding_offsets, is_indexed)
    IN  [events |-> (IF is_indexed THEN SetupIndexArray(pl, instance, im) ELSE <<>>)
                        \o <<BindPipelineEvent(WaitBuilt(pl, instance), ready)>>
                        \o (IF ready THEN <<RecordEvent(draw_closure)>> ELSE <<>>),
         entries |-> (IF is_indexed
                      THEN <<Entry(index_closure,
                                   [index_offset |-> im.offset,
                                    native_u8 |-> NativeU8(pl, instance)])>>
                      ELSE <<>>)
                         \o (IF ready
                             THEN <<Entry(draw_closure,
                                          [num_vertices |-> pl.num_vertices,
                                           vs_input_index_min |->
                                               vertex_info.vs_input_index_min,
                                           binding_count |->
                                               pipeline_info.vertex_layout.binding_count,
                                           binding_offsets |-> binding_offsets,
                                           is_indexed |-> is_indexed])>>
                             ELSE <<>>)]

\* Draw, the software batch; m is the Map of the vertex data.
SoftwareDrawBatch(m) ==
    LET vertex_count == vertex_batch
        vertex_size == vertex_count * SizeofHardwareVertex
        closure == SoftwareDrawClosure(m.offset, vertex_count)
    IN  [events |-> <<BindPipelineEvent(TRUE, TRUE),
                      MapEvent("stream_buffer", m, vertex_size),
                      Event("Write", "stream_buffer", "vertex_batch", 0, m.offset,
                            vertex_size),
                      CommitEvent("stream_buffer", vertex_size),
                      RecordEvent(closure)>>,
         entries |-> <<Entry(closure, [offset |-> m.offset,
                                       vertex_batch |-> vertex_batch])>>]

DrawBatch_ReturnsBound ==
    /\ pc = "DrawBatch"
    /\ pc' = "done"
    /\ vertex_batch' = 0
    /\ \E im \in MapResults("stream_buffer", 2), ready \in env.pipeline_ready,
          m \in MapResults("stream_buffer", SizeofHardwareVertex) :
         LET batch == IF accelerate THEN AccelerateDrawBatchInternal(im, ready)
                      ELSE SoftwareDrawBatch(m)
             st == RecordAll([scheduler |-> scheduler, cmdbuf |-> <<>>], batch.entries, 1,
                             This, env.use_worker_thread)
         IN  /\ log' = log \o <<BeginRenderingEvent>> \o batch.events
             /\ result' = (~accelerate \/ ready)
             /\ scheduler' = st.scheduler
             /\ cmdbuf' = st.cmdbuf
    /\ UNCHANGED <<accelerate, is_indexed, regs, pica, instance, env, memory,
                   pipeline_info, enable_attributes, binding_offsets, vertex_info,
                   vs_data_dirty, fs_data_dirty, fs_data, uniform_ranges,
                   framebuffer, texture_set>>

DrawBatch ==
    /\ pc = "DrawBatch"
    /\ pc' = "done"
    /\ vertex_batch' = 0
    /\ result' = TRUE
    /\ \E im \in MapResults("stream_buffer", 2), ready \in env.pipeline_ready,
          m \in MapResults("stream_buffer", SizeofHardwareVertex) :
         LET batch == IF accelerate THEN AccelerateDrawBatchInternal(im, ready)
                      ELSE SoftwareDrawBatch(m)
             st == RecordAll([scheduler |-> scheduler, cmdbuf |-> <<>>], batch.entries, 1,
                             This, env.use_worker_thread)
         IN  /\ log' = log \o <<BeginRenderingEvent>> \o batch.events
             /\ scheduler' = st.scheduler
             /\ cmdbuf' = st.cmdbuf
    /\ UNCHANGED <<accelerate, is_indexed, regs, pica, instance, env, memory,
                   pipeline_info, enable_attributes, binding_offsets, vertex_info,
                   vs_data_dirty, fs_data_dirty, fs_data, uniform_ranges,
                   framebuffer, texture_set>>

\* The draw returns to its caller: what it did and returned is dropped.
Return ==
    /\ pc = "done"
    /\ pc' = "idle"
    /\ accelerate' = FALSE
    /\ is_indexed' = FALSE
    /\ result' = TRUE
    /\ log' = <<>>
    /\ cmdbuf' = <<>>
    /\ UNCHANGED <<regs, pica, instance, env, memory, pipeline_info, enable_attributes,
                   binding_offsets, vertex_info, vs_data_dirty, fs_data_dirty, fs_data,
                   uniform_ranges, vertex_batch,
                   framebuffer, texture_set, scheduler>>

(***************************************************************************)
(* The guest between draws: a write to a uniform register marks the block   *)
(* that holds it (the base class and the core set the flags).               *)
(***************************************************************************)
NotifyUniformsChanged ==
    /\ pc = "idle"
    /\ \E block \in {"vs_data", "fs_data", "vs_uniforms"} :
         /\ vs_data_dirty' = (vs_data_dirty \/ block = "vs_data")
         /\ fs_data_dirty' = (fs_data_dirty \/ block = "fs_data")
         /\ pica' = [pica EXCEPT !.vs_setup.uniforms_dirty = (@ \/ block = "vs_uniforms")]
    /\ UNCHANGED <<pc, accelerate, is_indexed, regs, instance, env, memory, pipeline_info,
                   enable_attributes, binding_offsets, vertex_info, fs_data,
                   uniform_ranges, vertex_batch, result, log,
                   framebuffer, texture_set, scheduler, cmdbuf>>

(***************************************************************************)
(* The registers, the core state and the collaborators of a run.            *)
(***************************************************************************)
\* An attribute loader: component_count of its component slots are in use.
Loader(component_count, components, byte_count, data_offset) ==
    [component_count |-> component_count,
     byte_count |-> byte_count,
     data_offset |-> data_offset,
     components |-> [c \in 1 .. NumLoaderComponents |->
                       IF c <= Len(components) THEN components[c] ELSE 0]]

EmptyLoader == Loader(0, <<>>, 0, 0)

\* Twelve loaders: the first two as given, the others all the same.
Loaders(first, second, others) ==
    [i \in 1 .. NumLoaders |->
       IF i = 1 THEN first ELSE IF i = 2 THEN second ELSE others]

\* The format of the guest attributes: attribute 3 has no elements.
AttributeFormat ==
    [n \in 0 .. 11 |->
       CASE n = 0 -> [type |-> "FLOAT", num_elements |-> 3]
         [] n = 1 -> [type |-> "SHORT", num_elements |-> 2]
         [] n = 2 -> [type |-> "BYTE", num_elements |-> 4]
         [] n = 3 -> [type |-> "FLOAT", num_elements |-> 0]
         [] n = 4 -> [type |-> "UBYTE", num_elements |-> 1]
         [] OTHER -> [type |-> "FLOAT", num_elements |-> 4]]

VertexAttributes(loaders, mask) ==
    [base_address |-> 256,
     attribute_loaders |-> loaders,
     attribute_format |-> AttributeFormat,
     fixed_attribute_mask |-> mask]

\* Four vertices whose indices, read from guest memory, lie in 2..5.
PipelineRegs(va) ==
    [vertex_attributes |-> va,
     index_array |-> [format |-> 1, offset |-> 1024],
     num_vertices |-> 4,
     vertex_offset |-> 0,
     use_gs |-> "No",
     gs_config |-> [mode |-> "Point"],
     triangle_topology |-> "List"]

OutputMerger ==
    [alphablend_enable |-> FALSE,
     alpha_blending |-> "Add",
     blend_const |-> 0,
     logic_op |-> "Copy",
     fragment_operation_mode |-> "Default",
     depth_color_mask |-> 3840,
     depth_test_enable |-> 1,
     depth_test_func |-> "Less",
     depth_write_enable |-> 1,
     stencil_test |-> [enable |-> FALSE, ops |-> "Keep", reference_value |-> 0,
                       input_mask |-> 255, write_mask |-> 255]]

FramebufferConfig ==
    [allow_color_write |-> 15,
     allow_depth_stencil_write |-> 3,
     depth_format |-> "D24S8",
     color_buffer_address |-> 64,
     depth_buffer_address |-> 128,
     is_flipped |-> FALSE]

IdentityRegisters == [n \in Locations |-> n]

\* A texture unit: whether it is enabled, its configuration and its format.
Texture(enabled, type, address, max_level, sampler) ==
    [enabled |-> enabled,
     config |-> [type |-> type, address |-> address, width |-> 8,
                 lod |-> [max_level |-> max_level], sampler |-> sampler],
     format |-> "RGBA8"]

DisabledTexture == Texture(FALSE, "Texture2D", 0, 0, 1)

\* regs.texturing: the three units (GetTextures) and the addresses of the six
\* cube faces, the first of which is the address of unit 0.
Texturing(texture0, texture1, texture2) ==
    [textures |-> [i \in TextureUnits |->
                     IF i = 0 THEN texture0 ELSE IF i = 1 THEN texture1 ELSE texture2],
     cube_address |-> [face \in {CubeFaces[k] : k \in 1 .. Len(CubeFaces)} |->
                         IF face = "PositiveX" THEN texture0.config.address
                         ELSE texture0.config.address
                                + 8 * (CHOOSE k \in 1 .. Len(CubeFaces) :
                                         CubeFaces[k] = face)]]

Regs(fb_regs, va, input_to_register) ==
    [framebuffer |-> fb_regs,
     rasterizer |-> [cull_mode |-> "KeepAll"],
     pipeline |-> PipelineRegs(va),
     vs |-> [input_to_register |-> input_to_register],
     texturing |-> Texturing(DisabledTexture, DisabledTexture, DisabledTexture),
     lighting |-> [disable |-> TRUE]]

\* One loader of one three-float attribute, nothing marked default.
PlainVertexAttributes ==
    VertexAttributes(Loaders(Loader(1, <<0>>, 12, 0), EmptyLoader, EmptyLoader), {})

PlainRegs ==
    Regs([output_merger |-> OutputMerger, framebuffer |-> FramebufferConfig],
         PlainVertexAttributes, IdentityRegisters)

Pica(lighting_dirty, fog_dirty, table_dirty, uniforms_dirty) ==
    [lighting |-> [lut_dirty |-> lighting_dirty],
     fog |-> [lut_dirty |-> fog_dirty],
     proctex |-> [table_dirty |-> table_dirty],
     vs_setup |-> [uniforms_dirty |-> uniforms_dirty]]

Instance(emulation, stride_alignment) ==
    [NeedsLogicOpEmulation |-> emulation,
     MinVertexStrideAlignment |-> stride_alignment,
     IsIndexTypeUint8Supported |-> TRUE,
     IsTriangleFanSupported |-> TRUE,
     IsFragmentShaderBarycentricSupported |-> FALSE,
     async_shaders |-> FALSE]

StreamBuffers == {"stream_buffer", "uniform_buffer", "texture_buffer", "texture_lf_buffer"}

\* A framebuffer of the surface cache: whether its handle is null, its scissor
\* rectangle, the surface of its color attachment (0 when it has none), the
\* formats of its attachments.
Framebuffer(handle_null, scissor, color_surface) ==
    [handle_null |-> handle_null,
     scissor |-> scissor,
     color_view |-> IF color_surface = 0 THEN NoView ELSE ImageView(color_surface),
     format |-> [color |-> IF color_surface = 0 THEN "Invalid" ELSE "RGBA8",
                 depth |-> "D24S8"]]

\* Collaborators that never fail; the ring buffers in wrapping answer anything,
\* the others are fresh.
Env(wrapping) ==
    [maps |-> [b \in StreamBuffers |-> IF b \in wrapping THEN AllMapSlots ELSE FirstMapSlot],
     framebuffers |-> { Framebuffer(FALSE, 0, 64) },
     shader_ready |-> {TRUE},
     pipeline_ready |-> {TRUE},
     acquire_fresh |-> {TRUE},
     use_worker_thread |-> FALSE]

\* Guest memory of size bytes; the index data of a draw names vertices 2..5.
Memory(size) == [size |-> size, index_min |-> 2, index_max |-> 5]

(***************************************************************************)
(* The state after construction. The constructor sets the software vertex   *)
(* layout; the registers, the core's dirty bits and the collaborators are   *)
(* what the run was given.                                                  *)
(***************************************************************************)
InitWith(r, p, inst, e, mem) ==
    /\ pc = "idle"
    /\ accelerate = FALSE
    /\ is_indexed = FALSE
    /\ regs = r
    /\ pica = p
    /\ instance = inst
    /\ env = e
    /\ memory = mem
    /\ pipeline_info =
         [rasterization |-> [cull_mode |-> "KeepAll", flip_viewport |-> FALSE,
                             topology |-> "List"],
          blending |-> [blend_enable |-> FALSE, alpha_blending |-> "Add",
                        logic_op |-> "Clear", color_write_mask |-> 0],
          dynamic |-> [blend_color |-> 0, stencil_reference |-> 0,
                       stencil_compare_mask |-> 0, stencil_write_mask |-> 0],
          depth_stencil |-> [stencil_test_enable |-> FALSE, stencil_ops |-> "Keep",
                             depth_test_enable |-> FALSE, depth_compare_op |-> "Never",
                             depth_write_enable |-> FALSE],
          attachments |-> [color |-> "Invalid", depth |-> "Invalid"],
          vertex_layout |-> software_layout]
    /\ enable_attributes = [r2 \in Locations |-> FALSE]
    /\ binding_offsets = [b \in Locations |-> 0]
    /\ vertex_info = [vs_input_index_min |-> 0, vs_input_index_max |-> 0,
                      vs_input_size |-> 0]
    /\ fs_data = [lighting_lut_offset |-> [i \in LutAllDirty |-> 0],
                  fog_lut_offset |-> 0,
                  proctex_noise_lut_offset |-> 0,
                  proctex_color_map_offset |-> 0,
                  proctex_alpha_map_offset |-> 0,
                  proctex_lut_offset |-> 0,
                  proctex_diff_lut_offset |-> 0,
                  scissor |-> 0]
    /\ uniform_ranges = [b \in {VSPicaBinding, VSBinding, FSBinding} |-> 0]
    /\ vertex_batch = 0
    /\ result = TRUE
    /\ log = <<>>
    /\ framebuffer = Framebuffer(TRUE, 0, 0)
    /\ texture_set = ConstructedTextureSet
    /\ scheduler = <<>>
    /\ cmdbuf = <<>>

\* The steps of a draw, the software path and the accelerated path.
DrawStep ==
    \/ AddTriangle
    \/ DrawTriangles
    \/ AccelerateDrawBatch
    \/ SetupVertexArray
    \/ SetupShaders
    \/ SyncDrawState
    \/ AcquireFramebuffer
    \/ SyncTextureUnits
    \/ SyncAndUploadLUTs
    \/ SyncAndUploadLUTsLF
    \/ UploadUniforms
    \/ DrawBatch
    \/ Return

(***************************************************************************)
(* Draws under every setting of the output-merger and framebuffer           *)
(* registers the state synchronizer reads.                                  *)
(***************************************************************************)
FramebufferRegs ==
    { [output_merger |-> [OutputMerger EXCEPT !.alphablend_enable = blend,
                                              !.logic_op = op,
                                              !.depth_color_mask = mask,
                                              !.depth_test_enable = dt,
                                              !.depth_write_enable = dw],
       framebuffer |-> [FramebufferConfig EXCEPT !.allow_color_write = acw,
                                                 !.allow_depth_stencil_write = adw]] :
        blend \in BOOLEAN, op \in {"NoOp", "Copy"},
        mask \in {0, 3840, 6661}, dt \in {0, 1}, dw \in {0, 1},
        acw \in {0, 15}, adw \in {0, 3} }

Init ==
    /\ vs_data_dirty = FALSE
    /\ fs_data_dirty = FALSE
    /\ \E fb \in FramebufferRegs, emulation \in BOOLEAN :
         InitWith(Regs(fb, PlainVertexAttributes, IdentityRegisters),
                  Pica({}, FALSE, {}, FALSE), Instance(emulation, 1), Env({}),
                  Memory(4096))

Next == DrawStep

Spec == Init /\ [][Next]_vars

(***************************************************************************)
(* Properties of the fixed-function state synchronizer.                     *)
(***************************************************************************)
\* The logic op is emulated, blending is off and the logic op is NoOp.
NoOpEmulated ==
    /\ instance.NeedsLogicOpEmulation
    /\ ~regs.framebuffer.output_merger.alphablend_enable
    /\ regs.framebuffer.output_merger.logic_op = "NoOp"

\* Bits 8..11 of the guest depth/color mask register.
GuestColorMask == (regs.framebuffer.output_merger.depth_color_mask \div 256) % 16

\* Depth write as the registers ask for it, the logic op left aside.
GuestDepthWrite ==
    /\ regs.framebuffer.framebuffer.allow_depth_stencil_write # 0
    /\ regs.framebuffer.output_merger.depth_write_enable # 0

\* C9: when the instance needs logic-op emulation, blending is disabled and the
\* logic op is NoOp, SyncDrawState leaves the color write mask 0 whatever the
\* guest color mask and allow_color_write are, and depth_write_enable is what
\* the framebuffer's allow_depth_stencil_write and the guest's
\* depth_write_enable give for any logic op.
C9_NoOpEmulationMasksColorKeepsDepth ==
    [][SyncDrawState /\ NoOpEmulated =>
         /\ pipeline_info'.blending.color_write_mask = 0
         /\ pipeline_info'.depth_stencil.depth_write_enable = GuestDepthWrite]_vars

\* SyncDrawState has run on a NoOp-emulated configuration whose guest color mask
\* and allow_color_write are both non-zero and whose depth write is enabled.
C9_Witness ==
    /\ pc = "AcquireFramebuffer"
    /\ NoOpEmulated
    /\ GuestColorMask # 0
    /\ regs.framebuffer.framebuffer.allow_color_write # 0
    /\ pipeline_info.blending.color_write_mask = 0
    /\ pipeline_info.depth_stencil.depth_write_enable

\* C10: after SyncDrawState the color write mask is 0 whenever the framebuffer
\* disallows color writes, whatever the blend enable and the logic op are; when
\* color writes are allowed and the NoOp emulation does not apply, it is bits
\* 8..11 of the guest depth/color mask register.
C10_ColorWriteMask ==
    [][SyncDrawState =>
         /\ (regs.framebuffer.framebuffer.allow_color_write = 0
               => pipeline_info'.blending.color_write_mask = 0)
         /\ (regs.framebuffer.framebuffer.allow_color_write # 0 /\ ~NoOpEmulated
               => pipeline_info'.blending.color_write_mask = GuestColorMask)]_vars

\* SyncDrawState has run with color writes disallowed, blending enabled and a
\* guest color mask that is not 0.
C10_Witness ==
    /\ pc = "AcquireFramebuffer"
    /\ regs.framebuffer.framebuffer.allow_color_write = 0
    /\ regs.framebuffer.output_merger.alphablend_enable
    /\ GuestColorMask # 0
    /\ pipeline_info.blending.color_write_mask = 0

(***************************************************************************)
(* Draws with the uniform blocks dirty in every combination, the guest      *)
(* marking blocks between draws, and a uniform ring buffer that answers a   *)
(* Map with any place, wrapped or not.                                      *)
(***************************************************************************)
InitUniforms ==
    /\ vs_data_dirty \in BOOLEAN
    /\ fs_data_dirty \in BOOLEAN
    /\ \E uniforms_dirty \in BOOLEAN :
         InitWith(PlainRegs, Pica({}, FALSE, {}, uniforms_dirty), Instance(FALSE, 1),
                  Env({"uniform_buffer"}), Memory(4096))

NextUniforms == DrawStep \/ NotifyUniformsChanged

SpecUniforms == InitUniforms /\ [][NextUniforms]_vars

\* What the step adds to log.
Added == SubSeq(log', Len(log) + 1, Len(log'))

\* The entries of l that do ev to buffer buf.
EventsOf(l, ev, buf) == { l[i] : i \in { j \in 1 .. Len(l) : l[j].ev = ev /\ l[j].buf = buf } }

\* The three uniform blocks: their binding and their size in bytes.
UniformBlocks ==
    { [name |-> "vs_uniforms", binding |-> VSPicaBinding, size |-> SizeofVSPicaUniformData],
      [name |-> "vs_data", binding |-> VSBinding, size |-> SizeofVSUniformData],
      [name |-> "fs_data", binding |-> FSBinding, size |-> SizeofFSUniformData] }

\* Block b is written whole inside the region map m handed out, in l.
BlockWrittenIn(l, b, m) ==
    \E w \in EventsOf(l, "Write", "uniform_buffer") :
        /\ w.id = b.name
        /\ w.n = b.size
        /\ m.at <= w.at
        /\ w.at + w.n <= m.at + m.n

\* Block b is bound, in l, to the place it is written at in l, and that place
\* is the binding's offset ranges records.
BlockReboundIn(l, b, ranges) ==
    \E w \in EventsOf(l, "Write", "uniform_buffer") :
        /\ w.id = b.name
        /\ \E u \in EventsOf(l, "UpdateRange", "uniform_buffer") :
               u.idx = b.binding /\ u.at = w.at
        /\ ranges[b.binding] = w.at

\* No two blocks written in l share a byte.
WritesDisjoint(l) ==
    \A w1, w2 \in EventsOf(l, "Write", "uniform_buffer") :
        w1 # w2 => (w1.at + w1.n <= w2.at \/ w2.at + w2.n <= w1.at)

\* Block b's dirty flag as UploadUniforms reads it in a draw of kind acc.
BlockDirty(b, acc, vs_dirty, fs_dirty, core) ==
    CASE b.name = "vs_data" -> vs_dirty
      [] b.name = "fs_data" -> fs_dirty
      [] b.name = "vs_uniforms" -> acc /\ core.vs_setup.uniforms_dirty

\* Block b's own flag, whatever the kind of draw.
BlockFlag(b, vs_dirty, fs_dirty, core) ==
    CASE b.name = "vs_data" -> vs_dirty
      [] b.name = "fs_data" -> fs_dirty
      [] b.name = "vs_uniforms" -> core.vs_setup.uniforms_dirty

\* C1: whenever the Map of the uniform ring buffer in UploadUniforms reports a
\* wrap, all three uniform blocks are written in that call, inside the region
\* just mapped and apart from each other, and each binding is re-bound to the
\* place its block was written at, whatever the dirty flags were before the
\* call and whether or not the draw is accelerated.
C1_WrapUploadsAllUniformBlocks ==
    [][UploadUniforms =>
         \A m \in EventsOf(Added, "Map", "uniform_buffer") :
             m.idx = 1 =>
                 /\ \A b \in UniformBlocks :
                        /\ BlockWrittenIn(Added, b, m)
                        /\ BlockReboundIn(Added, b, uniform_ranges')
                 /\ WritesDisjoint(Added)]_vars

\* A non-accelerated draw whose Map wrapped: the VS-pica block, which such a
\* draw never syncs on its own, is among the three blocks written.
C1_Witness ==
    /\ pc = "DrawBatch"
    /\ ~accelerate
    /\ \E m \in EventsOf(log, "Map", "uniform_buffer") : m.idx = 1
    /\ \A b \in UniformBlocks :
           \E w \in EventsOf(log, "Write", "uniform_buffer") : w.id = b.name

\* C4: without a wrap, UploadUniforms writes and re-binds a block if and only if
\* its dirty flag is set (the VS-pica block only in an accelerated draw); a
\* block it does not write keeps the binding offset recorded before, and a
\* block it writes has the place just written recorded as its binding offset
\* and its dirty flag cleared.
C4_NoWrapUploadsExactlyDirtyBlocks ==
    [][UploadUniforms /\ (\A m \in EventsOf(Added, "Map", "uniform_buffer") : m.idx = 0) =>
         \A b \in UniformBlocks :
             LET written == \E w \in EventsOf(Added, "Write", "uniform_buffer") :
                                w.id = b.name
             IN  /\ written <=> BlockDirty(b, accelerate, vs_data_dirty, fs_data_dirty, pica)
                 /\ ~written => /\ uniform_ranges'[b.binding] = uniform_ranges[b.binding]
                                /\ \A u \in EventsOf(Added, "UpdateRange", "uniform_buffer") :
                                       u.idx # b.binding
                 /\ written => /\ BlockReboundIn(Added, b, uniform_ranges')
                               /\ ~BlockFlag(b, vs_data_dirty', fs_data_dirty', pica')]_vars

\* A draw whose Map did not wrap wrote the fragment block alone: its binding is
\* where it was written, the vertex block keeps an offset an earlier draw
\* recorded.
C4_Witness ==
    /\ pc = "DrawBatch"
    /\ \E m \in EventsOf(log, "Map", "uniform_buffer") : m.idx = 0
    /\ \A w \in EventsOf(log, "Write", "uniform_buffer") : w.id = "fs_data"
    /\ \E w \in EventsOf(log, "Write", "uniform_buffer") :
           uniform_ranges[FSBinding] = w.at
    /\ uniform_ranges[VSBinding] # 0
    /\ uniform_ranges[VSBinding] # uniform_ranges[FSBinding]

(***************************************************************************)
(* Draws with the dirty bits of the lookup tables set in every combination  *)
(* and two table ring buffers that answer a Map with any place, wrapped or  *)
(* not.                                                                     *)
(***************************************************************************)
InitLUT ==
    /\ vs_data_dirty = FALSE
    /\ fs_data_dirty = FALSE
    /\ \E lighting_dirty \in SUBSET LutAllDirty, fog_dirty \in BOOLEAN,
          table_dirty \in SUBSET TableAllDirty :
         InitWith(PlainRegs, Pica(lighting_dirty, fog_dirty, table_dirty, FALSE),
                  Instance(FALSE, 1), Env({"texture_buffer", "texture_lf_buffer"}),
                  Memory(4096))

NextLUT == DrawStep

SpecLUT == InitLUT /\ [][NextLUT]_vars

\* Table id (of index idx) is written in l, and offset is the place of that
\* write counted in elements of size bytes.
TableUploadedIn(l, buf, id, idx, offset, size) ==
    \E w \in EventsOf(l, "Write", buf) :
        /\ w.id = id
        /\ w.idx = idx
        /\ offset * size = w.at

\* C2: each lookup table whose dirty bit is set when a draw reaches the LUT sync
\* (any one lighting table, the fog table, any one of the five procedural
\* texture tables) is uploaded in that draw, its element offset is recorded in
\* fs_data and its dirty bit is cleared, for every combination of dirty bits.
C2_EveryDirtyTableUploaded ==
    [][/\ SyncAndUploadLUTs =>
            \A table \in pica.proctex.table_dirty :
                /\ TableUploadedIn(Added, "texture_buffer", table, 0,
                                   fs_data'[ProcTexOffsetField(table)],
                                   ProcTexElementSize(table))
                /\ table \notin pica'.proctex.table_dirty
       /\ SyncAndUploadLUTsLF =>
            /\ \A index \in pica.lighting.lut_dirty :
                   /\ TableUploadedIn(Added, "texture_lf_buffer", "lighting", index,
                                      fs_data'.lighting_lut_offset[index], SizeofVec2f)
                   /\ index \notin pica'.lighting.lut_dirty
            /\ pica.fog.lut_dirty =>
                   /\ TableUploadedIn(Added, "texture_lf_buffer", "fog", 0,
                                      fs_data'.fog_lut_offset, SizeofVec2f)
                   /\ ~pica'.fog.lut_dirty]_vars

\* A draw is past the LUT sync, nothing was written to the procedural-texture
\* buffer, and a procedural-texture table is still dirty.
C2_Witness ==
    /\ pc = "SyncAndUploadLUTsLF"
    /\ EventsOf(log, "Map", "texture_buffer") = {}
    /\ pica.proctex.table_dirty # {}

\* C3: when the Map of a lookup-table ring buffer reports a wrap, every table
\* kept in that buffer is written in that call whatever its dirty bit was
\* before (all lighting tables and the fog table for the lighting/fog buffer,
\* all five tables for the procedural-texture buffer), and afterwards none of
\* their dirty bits is set.
C3_WrapUploadsEveryTable ==
    [][/\ SyncAndUploadLUTs =>
            \A m \in EventsOf(Added, "Map", "texture_buffer") :
                m.idx = 1 =>
                    /\ \A table \in TableAllDirty :
                           TableUploadedIn(Added, "texture_buffer", table, 0,
                                           fs_data'[ProcTexOffsetField(table)],
                                           ProcTexElementSize(table))
                    /\ pica'.proctex.table_dirty = {}
       /\ SyncAndUploadLUTsLF =>
            \A m \in EventsOf(Added, "Map", "texture_lf_buffer") :
                m.idx = 1 =>
                    /\ \A index \in LutAllDirty :
                           TableUploadedIn(Added, "texture_lf_buffer", "lighting", index,
                                           fs_data'.lighting_lut_offset[index],
                                           SizeofVec2f)
                    /\ TableUploadedIn(Added, "texture_lf_buffer", "fog", 0,
                                       fs_data'.fog_lut_offset, SizeofVec2f)
                    /\ pica'.lighting.lut_dirty = {}
                    /\ ~pica'.fog.lut_dirty]_vars

\* Both table buffers wrapped in one draw: every table of both is in the log
\* and no dirty bit is left.
C3_Witness ==
    /\ pc = "UploadUniforms"
    /\ \E m \in EventsOf(log, "Map", "texture_buffer") : m.idx = 1
    /\ \E m \in EventsOf(log, "Map", "texture_lf_buffer") : m.idx = 1
    /\ \A table \in TableAllDirty :
           \E w \in EventsOf(log, "Write", "texture_buffer") : w.id = table
    /\ \A index \in LutAllDirty :
           \E w \in EventsOf(log, "Write", "texture_lf_buffer") :
               w.id = "lighting" /\ w.idx = index
    /\ \E w \in EventsOf(log, "Write", "texture_lf_buffer") : w.id = "fog"
    /\ pica.proctex.table_dirty = {}
    /\ pica.lighting.lut_dirty = {}
    /\ ~pica.fog.lut_dirty

(***************************************************************************)
(* Draws over a family of vertex-array configurations: loaders that are     *)
(* empty, have no bytes, interleave attributes with padding or name an      *)
(* attribute without elements; two maps from attributes to shader input     *)
(* registers; guest memory that holds all the vertex data or ends inside    *)
(* it; an instance with and without a minimum stride alignment.             *)
(***************************************************************************)
ReversedRegisters == [n \in Locations |-> 15 - n]

\* Two guest attributes for each shader input register.
PairedRegisters == [n \in Locations |-> n \div 2]

VertexArrays ==
    { VertexAttributes(Loaders(first, second, others), mask) :
        first \in { Loader(1, <<0>>, 12, 0), Loader(3, <<0, 13, 1>>, 24, 0), EmptyLoader },
        second \in { EmptyLoader, Loader(1, <<2>>, 0, 64), Loader(2, <<3, 1>>, 6, 64) },
        others \in { EmptyLoader, Loader(1, <<4>>, 4, 128) },
        mask \in { {}, {1, 5} } }

InitVertex ==
    /\ vs_data_dirty = FALSE
    /\ fs_data_dirty = FALSE
    /\ \E va \in VertexArrays, input_to_register \in {IdentityRegisters, ReversedRegisters, PairedRegisters},
          index_format \in {0, 1}, size \in {300, 4096}, stride_alignment \in {1, 4} :
         InitWith([PlainRegs EXCEPT !.pipeline.vertex_attributes = va,
                                    !.pipeline.index_array.format = index_format,
                                    !.vs.input_to_register = input_to_register],
                  Pica({}, FALSE, {}, FALSE), Instance(FALSE, stride_alignment),
                  Env({}), Memory(size))

NextVertex == DrawStep

SpecVertex == InitVertex /\ [][NextVertex]_vars

(***************************************************************************)
(* Properties of the vertex assembler.                                      *)
(***************************************************************************)
\* The loaders SetupVertexArray does not skip.
NonEmptyLoaders(va) ==
    { i \in 1 .. Len(va.attribute_loaders) :
        va.attribute_loaders[i].component_count # 0
            /\ va.attribute_loaders[i].byte_count # 0 }

\* Some component slot of a non-empty loader names a guest attribute that has
\* elements and is mapped to shader input register r.
ResolvedByLoader(va, vs, r) ==
    \E i \in NonEmptyLoaders(va) :
        \E comp \in 0 .. (NumLoaderComponents - 1) :
            /\ comp < va.attribute_loaders[i].component_count
            /\ va.attribute_loaders[i].components[comp + 1] < 12
            /\ va.attribute_format[va.attribute_loaders[i].components[comp + 1]]
                   .num_elements # 0
            /\ vs.input_to_register[va.attribute_loaders[i].components[comp + 1]] = r

\* The guest marked as default an attribute mapped to shader input register r.
DefaultForRegister(va, vs, r) ==
    \E i \in Locations : i \in va.fixed_attribute_mask /\ vs.input_to_register[i] = r

\* The layout serves register r as the claim says: one entry, of a binding in
\* use; a loader binding, or the fixed binding at a guest default (written in
\* events at that place of the fixed region), or the fixed binding at offset 0.
LocationServed(layout, offsets, events, va, vs, r) ==
    LET entries == { i \in Locations : layout.attributes[i].location = r }
        attribute == layout.attributes[r]
        last == layout.binding_count - 1
    IN  /\ layout.attribute_count = NumAttributes
        /\ entries = {r}
        /\ attribute.binding < layout.binding_count
        /\ IF ResolvedByLoader(va, vs, r)
           THEN /\ attribute.binding < last
                /\ layout.bindings[attribute.binding].fixed = 0
           ELSE /\ attribute.binding = last
                /\ layout.bindings[last].fixed = 1
                /\ attribute.type = "FLOAT"
                /\ attribute.size = 4
                /\ IF DefaultForRegister(va, vs, r)
                   THEN /\ attribute.offset >= SizeofVec4f
                        /\ \E w \in EventsOf(events, "Write", "stream_buffer") :
                               /\ w.id = "input_default_attributes"
                               /\ vs.input_to_register[w.idx] = r
                               /\ w.at = offsets[last] + attribute.offset
                   ELSE /\ attribute.offset = 0
                        /\ \E w \in EventsOf(events, "Write", "stream_buffer") :
                               /\ w.id = "default_attrib"
                               /\ w.at = offsets[last]

\* C5: after SetupVertexArray (SetupFixedAttribs included) the layout holds, for
\* every shader input location 0..15, exactly one attribute entry with that
\* location, of a binding below binding_count: a loader binding if a loader
\* component with elements resolved it, else the fixed binding at the guest
\* default when the guest marked an attribute mapped to it as default, else the
\* fixed binding at offset 0, the constant; no entry of an earlier draw stays.
C5_OneAttributePerLocation ==
    [][SetupVertexArray =>
         \A r \in Locations :
             LocationServed(pipeline_info'.vertex_layout, binding_offsets', Added,
                            regs.pipeline.vertex_attributes, regs.vs, r)]_vars

\* SetupVertexArray has run on an array where a loader resolves one register, a
\* guest default serves another and a third falls back to the constant.
C5_Witness ==
    /\ pc = "SetupShaders"
    /\ \E r1, r2, r3 \in Locations :
           /\ ResolvedByLoader(regs.pipeline.vertex_attributes, regs.vs, r1)
           /\ ~ResolvedByLoader(regs.pipeline.vertex_attributes, regs.vs, r2)
           /\ DefaultForRegister(regs.pipeline.vertex_attributes, regs.vs, r2)
           /\ ~ResolvedByLoader(regs.pipeline.vertex_attributes, regs.vs, r3)
           /\ ~DefaultForRegister(regs.pipeline.vertex_attributes, regs.vs, r3)
           /\ pipeline_info.vertex_layout.attributes[r1].binding
                  < pipeline_info.vertex_layout.binding_count - 1
           /\ pipeline_info.vertex_layout.attributes[r2].offset >= SizeofVec4f
           /\ pipeline_info.vertex_layout.attributes[r3].offset = 0
           /\ pipeline_info.vertex_layout.attributes[r3].binding
                  = pipeline_info.vertex_layout.binding_count - 1

\* C6: after SetupVertexArray binding_count is the number of non-empty loaders
\* plus one; every binding before the last has fixed = 0, the last has
\* fixed = 1, and binding_count is at most the 16 binding slots.
C6_BindingCount ==
    [][SetupVertexArray =>
         LET layout == pipeline_info'.vertex_layout
         IN  /\ layout.binding_count
                    = Cardinality(NonEmptyLoaders(regs.pipeline.vertex_attributes)) + 1
             /\ \A b \in 0 .. (layout.binding_count - 2) : layout.bindings[b].fixed = 0
             /\ layout.bindings[layout.binding_count - 1].fixed = 1
             /\ layout.binding_count <= NumAttributes]_vars

\* SetupVertexArray has run with all twelve loaders non-empty.
C6_Witness ==
    /\ pc = "SetupShaders"
    /\ Cardinality(NonEmptyLoaders(regs.pipeline.vertex_attributes)) = NumLoaders
    /\ pipeline_info.vertex_layout.binding_count = NumLoaders + 1

\* A copy of vertex data stays inside the guest-backed memory at its source.
CopyInsideMemory(e) == e.n <= GetPhysicalRefSize(memory, e.idx)

\* C7: when the byte range of a loader (byte_count times the vertex count, from
\* its start address) exceeds the guest-backed memory at that address, the
\* assembler reports it and copies no more than the bytes available, and the
\* draw goes on.
C7_ShortfallReportedAndClamped ==
    [][SetupVertexArray =>
         /\ \A f \in EventsOf(Added, "FlushRegion", "res_cache") :
                f.n > GetPhysicalRefSize(memory, f.at) =>
                    \E e \in EventsOf(Added, "LogError", "guest_memory") : e.at = f.at
         /\ \A e \in EventsOf(Added, "Copy", "stream_buffer") : CopyInsideMemory(e)
         /\ pc' = "SetupShaders"]_vars

\* SetupVertexArray reported a shortfall and copied past the end of memory.
C7_Witness ==
    /\ pc = "SetupShaders"
    /\ EventsOf(log, "LogError", "guest_memory") # {}
    /\ \E e \in EventsOf(log, "Copy", "stream_buffer") : ~CopyInsideMemory(e)

AttachmentRegs ==
    { [output_merger |->
           [OutputMerger EXCEPT !.fragment_operation_mode = mode,
                                !.depth_color_mask = mask,
                                !.depth_test_enable = dt,
                                !.depth_write_enable = dw,
                                !.stencil_test.enable = st],
       framebuffer |->
           [FramebufferConfig EXCEPT !.allow_depth_stencil_write = adw,
                                     !.depth_format = format,
                                     !.color_buffer_address = color,
                                     !.depth_buffer_address = depth]] :
        mode \in {"Default", "Shadow"}, mask \in {0, 3840}, dt \in {0, 1}, dw \in {0, 1},
        st \in BOOLEAN, adw \in {0, 3}, format \in {"D16", "D24S8"},
        color \in {0, 64}, depth \in {0, 128} }

InitFramebuffer ==
    /\ vs_data_dirty = FALSE
    /\ fs_data_dirty = FALSE
    /\ \E fb \in AttachmentRegs :
         InitWith(Regs(fb, PlainVertexAttributes, IdentityRegisters),
                  Pica({}, FALSE, {}, FALSE), Instance(FALSE, 1),
                  [Env({}) EXCEPT !.framebuffers =
                                      {Framebuffer(TRUE, 0, 0), Framebuffer(FALSE, 0, 64)}],
                  Memory(4096))

NextFramebuffer == DrawStep

SpecFramebuffer == InitFramebuffer /\ [][NextFramebuffer]_vars

\* C11: SyncDrawState enables the descriptor's depth test exactly when the guest
\* enabled the depth compare test or the depth write, whatever the framebuffer's
\* allow_depth_stencil_write is, and enables the stencil test exactly when the
\* guest's stencil test is enabled and the depth format is D24S8.
C11_DepthStencilTestEnable ==
    [][SyncDrawState =>
         /\ pipeline_info'.depth_stencil.depth_test_enable
              = (\/ regs.framebuffer.output_merger.depth_test_enable = 1
                 \/ regs.framebuffer.output_merger.depth_write_enable = 1)
         /\ pipeline_info'.depth_stencil.stencil_test_enable
              = (/\ regs.framebuffer.output_merger.stencil_test.enable
                 /\ regs.framebuffer.framebuffer.depth_format = "D24S8")]_vars

\* SyncDrawState has run with the depth compare test off, the depth write on, the
\* framebuffer not allowing depth writes, and a stencil test requested on a depth
\* format without stencil: the depth test is on, the stencil test off.
C11_Witness ==
    /\ pc = "AcquireFramebuffer"
    /\ regs.framebuffer.output_merger.depth_test_enable = 0
    /\ regs.framebuffer.output_merger.depth_write_enable = 1
    /\ regs.framebuffer.framebuffer.allow_depth_stencil_write = 0
    /\ regs.framebuffer.output_merger.stencil_test.enable
    /\ regs.framebuffer.framebuffer.depth_format = "D16"
    /\ pipeline_info.depth_stencil.depth_test_enable
    /\ ~pipeline_info.depth_stencil.stencil_test_enable

\* The usage flags Draw handed to the framebuffer lookup of this draw.
UsageAsked == EventsOf(log, "GetFramebufferSurfaces", "res_cache")

DrawWork ==
    { i \in 1 .. Len(log) :
        \/ log[i].ev \in {"AddImageSampler", "AddStorageImage", "BeginRendering",
                          "BindPipeline", "Record", "UpdateRange"}
        \/ log[i].ev = "Write" /\ log[i].buf \in {"uniform_buffer", "texture_buffer",
                                                  "texture_lf_buffer"} }

\* C17: when the framebuffer resolved for a draw has a null handle, Draw returns
\* true and the draw has bound no texture, uploaded no table and no uniform
\* block, begun no render pass, bound no pipeline and recorded no command, and
\* nothing ran on the command buffer; accelerated or not.
C17_NullFramebufferIsNoOp ==
    (pc = "done" /\ UsageAsked # {} /\ framebuffer.handle_null)
        => /\ result = TRUE
           /\ DrawWork = {}
           /\ cmdbuf = <<>>

\* An accelerated draw that uploaded its vertex data found no framebuffer and
\* returned.
C17_Witness ==
    /\ pc = "done"
    /\ accelerate
    /\ UsageAsked # {}
    /\ framebuffer.handle_null
    /\ result = TRUE
    /\ \E e \in EventsOf(log, "Copy", "stream_buffer") : e.id = "vertex"

(***************************************************************************)
(* Draws with the texture units in every mode: disabled, a plain texture    *)
(* that is or is not the color attachment of the framebuffer, and on unit 0 *)
(* a 2D shadow map, a shadow cube and a texture cube. The surface cache     *)
(* answers with a framebuffer with or without a color attachment, and the   *)
(* pipeline cache with a fresh texture set or with the one in use.          *)
(***************************************************************************)
Texture0Configs ==
    { DisabledTexture,
      Texture(TRUE, "Texture2D", 64, 0, 1),
      Texture(TRUE, "Texture2D", 200, 0, 2),
      Texture(TRUE, "Shadow2D", 200, 0, 1),
      Texture(TRUE, "ShadowCube", 200, 0, 1),
      Texture(TRUE, "TextureCube", 200, 2, 3),
      Texture(TRUE, "TextureCube", 64, 0, 1) }

Texture1Configs ==
    { DisabledTexture,
      Texture(TRUE, "Texture2D", 64, 0, 1),
      Texture(TRUE, "Texture2D", 200, 0, 2),
      Texture(TRUE, "TextureCube", 64, 1, 1) }

Texture2Configs ==
    { DisabledTexture, Texture(TRUE, "Texture2D", 64, 0, 2) }

InitTextures ==
    /\ vs_data_dirty = FALSE
    /\ fs_data_dirty = FALSE
    /\ \E t0 \in Texture0Configs, t1 \in Texture1Configs, t2 \in Texture2Configs,
          mode \in {"Default", "Shadow"} :
         InitWith([PlainRegs EXCEPT
                     !.texturing = Texturing(t0, t1, t2),
                     !.framebuffer.output_merger.fragment_operation_mode = mode],
                  Pica({}, FALSE, {}, FALSE), Instance(FALSE, 1),
                  [Env({}) EXCEPT !.framebuffers = {Framebuffer(FALSE, 0, 64),
                                                    Framebuffer(FALSE, 0, 0),
                                                    Framebuffer(TRUE, 0, 0)},
                                  !.acquire_fresh = BOOLEAN],
                  Memory(4096))

NextTextures == DrawStep

SpecTextures == InitTextures /\ [][NextTextures]_vars

\* The positions in the entries a step added to log of the entries that do ev
\* to buf for item idx.
AddedFor(ev, buf, idx) ==
    { i \in 1 .. Len(Added) :
        Added[i].ev = ev /\ Added[i].buf = buf /\ Added[i].idx = idx }

\* The null surface's image view with the null sampler.
NullBinding == [view |-> ImageView(NULL_SURFACE_ID), sampler |-> NULL_SAMPLER_ID]

\* Unit u is enabled and is not one of the special modes of unit 0.
GeneralPath(u) ==
    /\ regs.texturing.textures[u].enabled
    /\ ~(u = 0 /\ regs.texturing.textures[u].config.type
                    \in {"Shadow2D", "ShadowCube", "TextureCube"})

\* C12: from construction on every texture-unit binding 0..2 holds an image and
\* sampler pair; every SyncTextureUnits call writes at least one binding for
\* each unit, and it binds a disabled unit to the null surface's image view with
\* the null sampler.
C12_NoTextureBindingUnset ==
    /\ [](\A u \in TextureUnits : texture_set[u][0] # Unset)
    /\ [][SyncTextureUnits =>
            \A u \in TextureUnits :
               /\ AddedFor("AddImageSampler", "update_queue", u) # {}
               /\ ~regs.texturing.textures[u].enabled
                    => /\ texture_set'[u][0] = NullBinding
                       /\ \A i \in AddedFor("AddImageSampler", "update_queue", u) :
                            Added[i].at = 0 /\ Added[i].id = NullBinding]_vars

\* SyncTextureUnits has run on a fresh texture set with unit 1 disabled and unit
\* 0 a shadow cube: unit 1 holds the null binding.
C12_Witness ==
    /\ pc = "SyncAndUploadLUTs"
    /\ ~regs.texturing.textures[1].enabled
    /\ regs.texturing.textures[0].enabled
    /\ regs.texturing.textures[0].config.type = "ShadowCube"
    /\ texture_set[0][5] # Unset
    /\ texture_set[1][0] = NullBinding
    /\ texture_set[1][1] = Unset

\* C13: for a unit resolved through the general surface-cache path the view
\* bound is the surface's copy view if and only if the surface's image view is
\* the color view of the framebuffer of the draw, so that path never binds the
\* framebuffer's color view.
C13_FeedbackLoopBindsCopyView ==
    [][SyncTextureUnits =>
         \A u \in { v \in TextureUnits : GeneralPath(v) } :
            LET surface == regs.texturing.textures[u].config.address
                writes == AddedFor("AddImageSampler", "update_queue", u)
            IN  /\ writes # {}
                /\ \A i \in writes :
                     /\ (Added[i].id.view = CopyImageView(surface))
                          = (ImageView(surface) = framebuffer.color_view)
                     /\ Added[i].id.view \in {CopyImageView(surface), ImageView(surface)}
                     /\ Added[i].id.view # framebuffer.color_view]_vars

\* Unit 1 samples the surface that is the color attachment of the framebuffer
\* and was bound to its copy view, while unit 0 samples another surface and was
\* bound to its image view.
C13_Witness ==
    /\ pc = "SyncAndUploadLUTs"
    /\ GeneralPath(0) /\ GeneralPath(1)
    /\ framebuffer.color_view = ImageView(regs.texturing.textures[1].config.address)
    /\ texture_set[1][0].view = CopyImageView(regs.texturing.textures[1].config.address)
    /\ framebuffer.color_view # ImageView(regs.texturing.textures[0].config.address)
    /\ texture_set[0][0].view = ImageView(regs.texturing.textures[0].config.address)

\* Unit 0 is enabled and is a texture cube.
Unit0IsTextureCube ==
    /\ regs.texturing.textures[0].enabled
    /\ regs.texturing.textures[0].config.type = "TextureCube"

\* C14: when unit 0 is enabled and is a TextureCube, SyncTextureUnits asks for
\* exactly one cube, with the six face addresses, the width, levels = max LOD
\* level + 1 and the format of the registers, writes exactly one binding for
\* unit 0, and does not resolve unit 0 through the general path.
C14_TextureCubeResolvedOnce ==
    [][SyncTextureUnits /\ Unit0IsTextureCube =>
         LET tex == regs.texturing
             cubes == { i \in 1 .. Len(Added) : Added[i].ev = "GetTextureCube" }
         IN  /\ Cardinality(cubes) = 1
             /\ \A i \in cubes :
                  Added[i].id = [px |-> tex.cube_address["PositiveX"],
                                 nx |-> tex.cube_address["NegativeX"],
                                 py |-> tex.cube_address["PositiveY"],
                                 ny |-> tex.cube_address["NegativeY"],
                                 pz |-> tex.cube_address["PositiveZ"],
                                 nz |-> tex.cube_address["NegativeZ"],
                                 width |-> tex.textures[0].config.width,
                                 levels |-> tex.textures[0].config.lod.max_level + 1,
                                 format |-> tex.textures[0].format]
             /\ Cardinality(AddedFor("AddImageSampler", "update_queue", 0)) = 1
             /\ AddedFor("GetTextureSurface", "res_cache", 0) = {}]_vars

\* SyncTextureUnits has run with unit 0 a texture cube of maximum LOD level 2 on
\* a fresh texture set: one array element of binding 0 is written.
C14_Witness ==
    /\ pc = "SyncAndUploadLUTs"
    /\ Unit0IsTextureCube
    /\ regs.texturing.textures[0].config.lod.max_level = 2
    /\ texture_set[0][0].view = ImageView(regs.texturing.cube_address["PositiveX"])
    /\ texture_set[0][1] = Unset

(***************************************************************************)
(* Accelerated and software draws under every geometry-shader setting and   *)
(* topology, on instances with and without triangle fans, with a pipeline   *)
(* cache that has or has not the shader programs asked for.                 *)
(***************************************************************************)
InitEligibility ==
    /\ vs_data_dirty = FALSE
    /\ fs_data_dirty = FALSE
    /\ \E use_gs \in {"No", "Yes"}, mode \in {"Point", "VariablePrimitive"},
          topology \in {"List", "Strip", "Fan", "Shader"},
          fan \in BOOLEAN, lighting_disable \in BOOLEAN :
         InitWith([PlainRegs EXCEPT !.pipeline.use_gs = use_gs,
                                    !.pipeline.gs_config.mode = mode,
                                    !.pipeline.triangle_topology = topology,
                                    !.lighting.disable = lighting_disable],
                  Pica({}, FALSE, {}, FALSE),
                  [Instance(FALSE, 1) EXCEPT !.IsTriangleFanSupported = fan],
                  [Env({}) EXCEPT !.shader_ready = BOOLEAN],
                  Memory(4096))

NextEligibility == DrawStep

SpecEligibility == InitEligibility /\ [][NextEligibility]_vars

\* The accelerated call went on to Draw.
WentOnToDraw == accelerate /\ pc = "SyncDrawState"

\* The accelerated call returned false before Draw.
RejectedBeforeDraw == accelerate /\ pc = "done" /\ result = FALSE

\* No shader program the call asked the pipeline cache for was missing.
ProgramsAvailable ==
    \A i \in 1 .. Len(log) :
       log[i].ev \in {"UseProgrammableVertexShader", "UseFixedGeometryShader"}
          => log[i].n = 1

\* The topology is not a triangle fan, or the instance supports triangle fans.
FanAllowed ==
    regs.pipeline.triangle_topology # "Fan" \/ instance.IsTriangleFanSupported

\* C15, as stated: an accelerated call whose shader programs are available goes
\* on to the draw exactly when (no geometry shader is in use, or its mode is
\* Point with triangle topology Shader) and (the topology is not a triangle fan
\* or triangle fans are supported).
C15_EligibleExactlyWhenPointOrNoGS ==
    LET eligible ==
            /\ \/ regs.pipeline.use_gs = "No"
               \/ /\ regs.pipeline.gs_config.mode = "Point"
                  /\ regs.pipeline.triangle_topology = "Shader"
            /\ FanAllowed
    IN  /\ WentOnToDraw => eligible
        /\ (RejectedBeforeDraw /\ ProgramsAvailable) => ~eligible

\* C15, amended: an accelerated call whose shader programs are available goes on
\* to the draw exactly when no geometry shader is in use and (the topology is
\* not a triangle fan or triangle fans are supported); with a geometry shader
\* in use the call returns false, also in Point mode with topology Shader.
C15_EligibleExactlyWhenNoGS ==
    LET eligible == regs.pipeline.use_gs = "No" /\ FanAllowed
    IN  /\ WentOnToDraw => eligible
        /\ (RejectedBeforeDraw /\ ProgramsAvailable) => ~eligible

\* An accelerated call with a geometry shader in Point mode and topology Shader
\* decoded its vertex array, found its vertex shader and returned false.
C15_Witness ==
    /\ RejectedBeforeDraw
    /\ ProgramsAvailable
    /\ regs.pipeline.use_gs # "No"
    /\ regs.pipeline.gs_config.mode = "Point"
    /\ regs.pipeline.triangle_topology = "Shader"
    /\ \E i \in 1 .. Len(log) :
         log[i].ev = "UseProgrammableVertexShader" /\ log[i].n = 1

(***************************************************************************)
(* Accelerated draws of 4, 6 and 7 vertices with asynchronous shader        *)
(* compilation on and off, with a pipeline cache whose BindPipeline reports *)
(* the pipeline bound or not ready.                                         *)
(***************************************************************************)
InitAsync ==
    /\ vs_data_dirty = FALSE
    /\ fs_data_dirty = FALSE
    /\ \E async \in BOOLEAN, num_vertices \in {4, 6, 7} :
         InitWith([PlainRegs EXCEPT !.pipeline.num_vertices = num_vertices],
                  Pica({}, FALSE, {}, FALSE),
                  [Instance(FALSE, 1) EXCEPT !.async_shaders = async],
                  [Env({}) EXCEPT !.pipeline_ready = BOOLEAN],
                  Memory(4096))

NextAsync == DrawStep

SpecAsync == InitAsync /\ [][NextAsync]_vars

\* The positions in l of the Record calls that hand over the draw command of an
\* accelerated draw.
DrawRecords(l) ==
    { i \in 1 .. Len(l) : l[i].ev = "Record" /\ l[i].id.kind = "AcceleratedDraw" }

\* C18: an accelerated draw asks BindPipeline to wait exactly when asynchronous
\* shader compilation is off or the draw has at most 6 vertices; when
\* BindPipeline reports the pipeline not ready, the draw records no draw
\* command, no draw runs on the command buffer, and the draw returns true.
C18_AsyncPipelineBind ==
    [][DrawBatch /\ accelerate =>
         LET binds == { i \in 1 .. Len(Added) : Added[i].ev = "BindPipeline" }
         IN  /\ Cardinality(binds) = 1
             /\ \A i \in binds :
                  /\ (Added[i].idx = 1)
                       = (~instance.async_shaders \/ regs.pipeline.num_vertices <= 6)
                  /\ Added[i].n = 0 =>
                       /\ DrawRecords(log') = {}
                       /\ \A k \in 1 .. Len(cmdbuf') :
                            cmdbuf'[k].call \notin {"draw", "drawIndexed"}
                       /\ pc' = "done"
                       /\ result' = TRUE]_vars

\* An indexed accelerated draw of 7 vertices with asynchronous compilation on
\* did not wait, found the pipeline not ready, and returned true having recorded
\* its index buffer but no draw.
C18_Witness ==
    /\ pc = "done"
    /\ accelerate
    /\ is_indexed
    /\ instance.async_shaders
    /\ regs.pipeline.num_vertices = 7
    /\ result = TRUE
    /\ \E i \in 1 .. Len(log) :
         log[i].ev = "BindPipeline" /\ log[i].idx = 0 /\ log[i].n = 0
    /\ \E i \in 1 .. Len(log) : log[i].ev = "Record"
    /\ DrawRecords(log) = {}

(***************************************************************************)
(* Software batches between accelerated attempts that overwrite the vertex  *)
(* layout and the topology and are then drawn or rejected: strips and fans  *)
(* on instances with and without triangle fans, with a pipeline cache that  *)
(* has or has not the vertex shader.                                        *)
(***************************************************************************)
InitSoftware ==
    /\ vs_data_dirty = FALSE
    /\ fs_data_dirty = FALSE
    /\ \E topology \in {"List", "Strip", "Fan"}, fan \in BOOLEAN,
          va \in { PlainVertexAttributes,
                   VertexAttributes(Loaders(Loader(3, <<0, 13, 1>>, 24, 0),
                                            Loader(2, <<3, 1>>, 6, 64),
                                            Loader(1, <<4>>, 4, 128)), {1, 5}) } :
         InitWith([PlainRegs EXCEPT !.pipeline.triangle_topology = topology,
                                    !.pipeline.vertex_attributes = va],
                  Pica({}, FALSE, {}, FALSE),
                  [Instance(FALSE, 1) EXCEPT !.IsTriangleFanSupported = fan],
                  [Env({}) EXCEPT !.shader_ready = BOOLEAN],
                  Memory(4096))

NextSoftware == DrawStep

SpecSoftware == InitSoftware /\ [][NextSoftware]_vars

\* What only the loader-decoding path does: flushes, copies of guest vertex
\* data, default attributes written to the stream buffer.
LoaderWork(l) ==
    { i \in 1 .. Len(l) :
        \/ l[i].ev \in {"FlushRegion", "Copy", "Read"}
        \/ l[i].ev = "Write" /\ l[i].buf = "stream_buffer" /\ l[i].id # "vertex_batch" }

\* C19: when a non-accelerated draw binds its pipeline, the descriptor's vertex
\* layout is the software layout (one binding, eight attributes) and its
\* topology is the triangle list, whatever draws came before; and nothing of
\* the loader-decoding path ran in that draw.
C19_SoftwareDrawUsesSoftwareLayout ==
    [][DrawBatch /\ ~accelerate =>
         /\ pipeline_info.vertex_layout = software_layout
         /\ pipeline_info.vertex_layout.binding_count = 1
         /\ pipeline_info.vertex_layout.attribute_count = 8
         /\ pipeline_info.rasterization.topology = "List"
         /\ LoaderWork(log') = {}]_vars

\* A software batch is about to bind its pipeline with the software layout and
\* the triangle list, after an accelerated attempt on triangle strips decoded
\* three loaders into the layout.
C19_Witness ==
    /\ pc = "DrawBatch"
    /\ ~accelerate
    /\ regs.pipeline.triangle_topology = "Strip"
    /\ vertex_info.vs_input_size # 0
    /\ enable_attributes[0]
    /\ binding_offsets[2] # 0
    /\ pipeline_info.vertex_layout = software_layout
    /\ pipeline_info.rasterization.topology = "List"

(***************************************************************************)
(* Draws recorded with a scheduler that runs its commands later, on its     *)
(* worker thread, while the guest goes on writing registers and drawing. A  *)
(* stream buffer that answers a Map with any place gives later draws other  *)
(* binding offsets; indexed and plain draws differ in their vertex range.   *)
(***************************************************************************)
\* The vertex counts the guest writes to the register.
GuestVertexCounts == {3, 4}

\* The stream buffer answers a Map with one of two places and never wraps.
TwoMapSlots == { [slot |-> k, invalidate |-> FALSE] : k \in {0, 1} }

\* The guest writes the vertex count and the index format between two draws.
WriteRegisters ==
    /\ pc = "idle"
    /\ \E n \in GuestVertexCounts, format \in {0, 1} :
         /\ regs.pipeline.num_vertices # n \/ regs.pipeline.index_array.format # format
         /\ regs' = [regs EXCEPT !.pipeline.num_vertices = n,
                                 !.pipeline.index_array.format = format]
    /\ UNCHANGED <<pc, accelerate, is_indexed, pica, instance, env, memory, pipeline_info,
                   enable_attributes, binding_offsets, vertex_info, vs_data_dirty,
                   fs_data_dirty, fs_data, uniform_ranges, vertex_batch, result, log,
                   framebuffer, texture_set, scheduler, cmdbuf>>

InitScheduler ==
    /\ vs_data_dirty = FALSE
    /\ fs_data_dirty = FALSE
    /\ InitWith(PlainRegs, Pica({}, FALSE, {}, FALSE), Instance(FALSE, 1),
                [Env({}) EXCEPT !.use_worker_thread = TRUE,
                                !.maps["stream_buffer"] = TwoMapSlots],
                Memory(4096))

NextScheduler == DrawStep \/ DispatchWork \/ WriteRegisters

SpecScheduler == InitScheduler /\ [][NextScheduler]_vars

\* A call of the command buffer uses what the rasterizer's scratch state was
\* when the command it belongs to was recorded.
UsesRecordedState(c) ==
    CASE c.kind = "AcceleratedDraw" ->
           CASE c.call = "bindVertexBuffers" ->
                  /\ c.args.count = c.recorded.binding_count
                  /\ c.args.offsets = c.recorded.binding_offsets
             [] c.call = "drawIndexed" ->
                  /\ c.recorded.is_indexed
                  /\ c.args.count = c.recorded.num_vertices
                  /\ c.args.vertex_offset = 0 - c.recorded.vs_input_index_min
             [] c.call = "draw" ->
                  /\ ~c.recorded.is_indexed
                  /\ c.args.count = c.recorded.num_vertices
             [] OTHER -> FALSE
      [] c.kind = "BindIndexBuffer" ->
           /\ c.call = "bindIndexBuffer"
           /\ c.args.offset = c.recorded.index_offset
           /\ c.args.index_type = IF c.recorded.native_u8 THEN "eUint8EXT" ELSE "eUint16"
      [] c.kind = "SoftwareDraw" ->
           CASE c.call = "bindVertexBuffers" -> c.args.offsets = c.recorded.offset
             [] c.call = "draw" -> c.args.count = c.recorded.vertex_batch
             [] OTHER -> FALSE

\* C20: a draw or index-buffer command recorded with the scheduler uses, when it
\* runs, the vertex count, vertex offset, binding count, binding offsets,
\* indexed flag and index-buffer offset and type of the time it was recorded,
\* whatever later draws and register writes have made of binding_offsets,
\* vertex_info and the registers since.
C20_CommandsUseRecordedState ==
    \A k \in 1 .. Len(cmdbuf) : UsesRecordedState(cmdbuf[k])

\* The command of an indexed accelerated draw ran after the guest changed the
\* vertex count and a later plain draw moved the binding offsets and the vertex
\* range: it drew with what was recorded.
C20_Witness ==
    \E k \in 1 .. Len(cmdbuf) :
       /\ cmdbuf[k].call = "drawIndexed"
       /\ cmdbuf[k].args.count = cmdbuf[k].recorded.num_vertices
       /\ cmdbuf[k].recorded.num_vertices # regs.pipeline.num_vertices
       /\ cmdbuf[k].recorded.binding_offsets # binding_offsets
       /\ cmdbuf[k].recorded.vs_input_index_min # vertex_info.vs_input_index_min
       /\ k > 1
       /\ cmdbuf[k - 1].call = "bindVertexBuffers"
       /\ cmdbuf[k - 1].args.offsets = cmdbuf[k].recorded.binding_offsets

(***************************************************************************)
(* Draws between which the guest rewrites the output-merger and framebuffer *)
(* registers, so that the state synchronizer finds in the descriptor what   *)
(* an earlier draw under other registers left there.                        *)
(***************************************************************************)
SyncRegs ==
    { [output_merger |-> [OutputMerger EXCEPT !.alphablend_enable = blend,
                                              !.logic_op = op,
                                              !.depth_write_enable = dw],
       framebuffer |-> [FramebufferConfig EXCEPT !.allow_color_write = acw,
                                                 !.allow_depth_stencil_write = adw]] :
        blend \in BOOLEAN, op \in {"NoOp", "Copy"}, dw \in {0, 1},
        acw \in {0, 15}, adw \in {0, 3} }

\* The guest rewrites the output-merger and framebuffer registers between two draws.
WriteFramebufferRegisters ==
    /\ pc = "idle"
    /\ \E fb \in SyncRegs :
         /\ fb # regs.framebuffer
         /\ regs' = [regs EXCEPT !.framebuffer = fb]
    /\ UNCHANGED <<pc, accelerate, is_indexed, pica, instance, env, memory, pipeline_info,
                   enable_attributes, binding_offsets, vertex_info, vs_data_dirty,
                   fs_data_dirty, fs_data, uniform_ranges, vertex_batch, result, log,
                   framebuffer, texture_set, scheduler, cmdbuf>>

InitSync ==
    /\ vs_data_dirty = FALSE
    /\ fs_data_dirty = FALSE
    /\ \E emulation \in BOOLEAN :
         InitWith(PlainRegs, Pica({}, FALSE, {}, FALSE), Instance(emulation, 1),
                  Env({}), Memory(4096))

NextSync == DrawStep \/ WriteFramebufferRegisters

SpecSync == InitSync /\ [][NextSync]_vars

\* The fields of the descriptor SyncDrawState assigns.
SyncedFields(info) ==
    [cull_mode |-> info.rasterization.cull_mode,
     flip_viewport |-> info.rasterization.flip_viewport,
     blending |-> info.blending,
     dynamic |-> info.dynamic,
     stencil_test_enable |-> info.depth_stencil.stencil_test_enable,
     stencil_ops |-> info.depth_stencil.stencil_ops,
     depth_test_enable |-> info.depth_stencil.depth_test_enable,
     depth_compare_op |-> info.depth_stencil.depth_compare_op,
     depth_write_enable |-> info.depth_stencil.depth_write_enable]

\* The descriptors an earlier draw can have left behind: the one it found,
\* synchronized under any setting of the registers.
EarlierDescriptors ==
    { SyncDrawStateResult(pipeline_info, fb, regs.rasterizer.cull_mode, instance) :
        fb \in SyncRegs }

\* C21: what SyncDrawState leaves in the fields it assigns depends on the
\* registers and the API capabilities alone: started from any descriptor an
\* earlier draw can have left, it yields the same values, and run again on its
\* own result it changes nothing.
C21_SyncDrawStateDeterministic ==
    [][SyncDrawState =>
         /\ \A earlier \in EarlierDescriptors :
              SyncedFields(SyncDrawStateResult(earlier, regs.framebuffer,
                                               regs.rasterizer.cull_mode, instance))
                = SyncedFields(pipeline_info')
         /\ SyncDrawStateResult(pipeline_info', regs.framebuffer,
                                regs.rasterizer.cull_mode, instance) = pipeline_info']_vars

\* The synchronizer has run on a descriptor an earlier draw filled, attachments
\* included, and with the color writes the registers now disallow the mask it
\* left is 0, the depth write off, though the registers' own mask is not 0.
C21_Witness ==
    /\ pc = "AcquireFramebuffer"
    /\ pipeline_info.attachments.color = "RGBA8"
    /\ regs.framebuffer # PlainRegs.framebuffer
    /\ regs.framebuffer.framebuffer.allow_color_write = 0
    /\ regs.framebuffer.output_merger.depth_color_mask # 0
    /\ pipeline_info.blending.color_write_mask = 0
    /\ regs.framebuffer.framebuffer.allow_depth_stencil_write = 0
    /\ ~pipeline_info.depth_stencil.depth_write_enable

(***************************************************************************)
(* The order of the steps of a draw. Draws with lookup tables and uniform   *)
(* blocks dirty, so that every step has something to ask of a collaborator, *)
(* with a surface cache that answers with a framebuffer or a null handle.   *)
(***************************************************************************)
InitOrder ==
    /\ vs_data_dirty \in BOOLEAN
    /\ fs_data_dirty \in BOOLEAN
    /\ \E lut_dirty \in BOOLEAN :
         InitWith(PlainRegs,
                  Pica(IF lut_dirty THEN {0} ELSE {}, lut_dirty,
                       IF lut_dirty THEN TableAllDirty ELSE {}, lut_dirty),
                  Instance(FALSE, 1),
                  [Env({}) EXCEPT !.framebuffers =
                                      {Framebuffer(TRUE, 0, 0), Framebuffer(FALSE, 1, 64)}],
                  Memory(4096))

NextOrder == DrawStep \/ NotifyUniformsChanged

SpecOrder == InitOrder /\ [][NextOrder]_vars

\* The step of the draw a call to a collaborator belongs to; "none" for the
\* Map and Commit of the vertex stream buffer, which several steps make.
CallStep(e) ==
    CASE e.ev \in {"FlushRegion", "Read", "LogError"} -> "VertexPath"
      [] e.buf = "stream_buffer" /\ e.ev \in {"Copy", "Write"} ->
           IF e.id \in {"vertex", "default_attrib"} THEN "VertexPath" ELSE "Draw"
      [] e.ev \in {"UseProgrammableVertexShader", "UseTrivialGeometryShader",
                   "UseFixedGeometryShader"} -> "BindShader"
      [] e.ev = "GetFramebufferSurfaces" -> "AcquireFramebuffer"
      [] e.ev \in {"Acquire", "AddImageSampler", "GetTextureSurface", "ShadowMap",
                   "GetTextureCube", "AddStorageImage", "UseFragmentShader"} ->
           "BindResources"
      [] e.buf \in {"texture_buffer", "texture_lf_buffer", "uniform_buffer"} ->
           "UploadUniformsAndLUTs"
      [] e.ev \in {"BeginRendering", "BindPipeline", "Record"} -> "Draw"
      [] OTHER -> "none"

\* Draw is past its call of SyncDrawState and has not returned.
AfterSyncDrawState ==
    pc \in {"AcquireFramebuffer", "SyncTextureUnits", "SyncAndUploadLUTs",
            "SyncAndUploadLUTsLF", "UploadUniforms", "DrawBatch"}

\* The order of the steps as the state machine of the draw is described.
ClaimedOrder ==
    [SyncState |-> 1, VertexPath |-> 2, BindShader |-> 3, BindResources |-> 4,
     UploadUniformsAndLUTs |-> 5, AcquireFramebuffer |-> 6, Draw |-> 7]

\* The order of the calls in AccelerateDrawBatch, DrawTriangles and Draw.
CodeOrder ==
    [VertexPath |-> 1, BindShader |-> 2, SyncState |-> 3, AcquireFramebuffer |-> 4,
     BindResources |-> 5, UploadUniformsAndLUTs |-> 6, Draw |-> 7]

\* The calls made so far in the draw came in the order rank gives their steps.
CallsInOrder(rank) ==
    \A i, j \in 1 .. Len(log) :
       (i < j /\ CallStep(log[i]) # "none" /\ CallStep(log[j]) # "none")
           => rank[CallStep(log[i])] <= rank[CallStep(log[j])]

\* The calls a step makes are of steps that rank puts before the state
\* synchronization when Draw has not synchronized yet, after it when it has.
CallsAroundSync(rank) ==
    \A k \in 1 .. Len(Added) :
       CallStep(Added[k]) # "none"
           => IF AfterSyncDrawState
              THEN rank["SyncState"] < rank[CallStep(Added[k])]
              ELSE rank[CallStep(Added[k])] < rank["SyncState"]

\* A draw command is recorded only when every step before it has acted.
StepsPresent ==
    (\E k \in 1 .. Len(log) : log[k].ev = "Record" /\ log[k].id.kind # "BindIndexBuffer")
        => /\ \E k \in 1 .. Len(log) : CallStep(log[k]) = "AcquireFramebuffer"
           /\ \E k \in 1 .. Len(log) : CallStep(log[k]) = "BindResources"
           /\ accelerate => /\ \E k \in 1 .. Len(log) : CallStep(log[k]) = "VertexPath"
                            /\ \E k \in 1 .. Len(log) : CallStep(log[k]) = "BindShader"

\* C22 as stated: in each draw the state synchronization comes first, then the
\* vertex path, the shader binding, the resource binding, the upload of the
\* uniforms and tables, the framebuffer acquisition, the draw recording and the
\* cleanup.
C22_StepsInClaimedOrder ==
    /\ [](CallsInOrder(ClaimedOrder))
    /\ [][CallsAroundSync(ClaimedOrder)]_vars

\* C22 as the code has it: in each draw the vertex path comes first, then the
\* binding of the vertex and geometry programs, the state synchronization, the
\* framebuffer acquisition, the binding of the textures and of the fragment
\* program, the upload of the tables and uniforms, the draw recording, and last
\* the cleanup, which empties the vertex batch before the draw returns.
C22_StepsInCodeOrder ==
    /\ [](CallsInOrder(CodeOrder) /\ StepsPresent)
    /\ [][CallsAroundSync(CodeOrder)]_vars
    /\ [][(\E k \in 1 .. Len(Added) : Added[k].ev = "Record")
              => (vertex_batch' = 0 /\ pc' = "done")]_vars

\* An accelerated draw recorded its command after every step made a call: the
\* vertex data was copied, the programs chosen, the framebuffer acquired, the
\* textures bound, tables and uniforms uploaded.
C22_Witness ==
    /\ pc = "done"
    /\ accelerate
    /\ \E k \in 1 .. Len(log) : log[k].ev = "Record" /\ log[k].id.kind = "AcceleratedDraw"
    /\ \A step \in {"VertexPath", "BindShader", "AcquireFramebuffer", "BindResources",
                    "UploadUniformsAndLUTs", "Draw"} :
          \E k \in 1 .. Len(log) : CallStep(log[k]) = step
    /\ \E k \in 1 .. Len(log) : log[k].buf = "texture_buffer"
    /\ \E k \in 1 .. Len(log) : log[k].buf = "uniform_buffer"

(***************************************************************************)
(* Accelerated draws whose loaders interleave attributes of one, two and    *)
(* four byte elements with padding slots and with an attribute that has no  *)
(* elements, so that the running offset is not aligned when a slot is met.  *)
(***************************************************************************)
WalkArrays ==
    { VertexAttributes(Loaders(first, second, EmptyLoader), {}) :
        first \in { Loader(4, <<4, 1, 12, 0>>, 24, 0), Loader(3, <<4, 12, 1>>, 12, 0),
                    Loader(4, <<1, 4, 14, 0>>, 32, 0) },
        second \in { EmptyLoader, Loader(5, <<2, 3, 5, 15, 6>>, 52, 64),
                     Loader(4, <<3, 13, 3, 5>>, 24, 64) } }

InitWalk ==
    /\ vs_data_dirty = FALSE
    /\ fs_data_dirty = FALSE
    /\ \E va \in WalkArrays, input_to_register \in {IdentityRegisters, ReversedRegisters},
          stride_alignment \in {1, 4} :
         InitWith([PlainRegs EXCEPT !.pipeline.vertex_attributes = va,
                                    !.vs.input_to_register = input_to_register],
                  Pica({}, FALSE, {}, FALSE), Instance(FALSE, stride_alignment),
                  Env({}), Memory(4096))

NextWalk == DrawStep

SpecWalk == InitWalk /\ [][NextWalk]_vars

\* The running byte offset when the walk of loader reaches slot comp, by the
\* rule for the slots before it: a padding slot s aligns the offset up to 4
\* and adds (s - 11) * 4; an attribute without elements leaves it; any other
\* attribute aligns it up to the size of one element and adds the bytes of
\* all its elements.
RECURSIVE RunningOffset(_, _, _)
RunningOffset(loader, va, comp) ==
    IF comp = 0 THEN 0
    ELSE LET before == RunningOffset(loader, va, comp - 1)
             s == GetComponent(loader, comp - 1)
         IN  IF s >= 12 THEN AlignUp(before, 4) + (s - 11) * 4
             ELSE IF GetNumElements(va, s) = 0 THEN before
             ELSE AlignUp(before, GetElementSizeInBytes(va, s))
                      + GetNumElements(va, s) * GetElementSizeInBytes(va, s)

\* The slots in use of loader i, and the binding of the loader.
SlotsOf(va, i) ==
    0 .. (Min({va.attribute_loaders[i].component_count, NumLoaderComponents}) - 1)

BindingOfLoader(va, i) == Cardinality({ j \in NonEmptyLoaders(va) : j < i })

\* Slot comp of loader i names a guest attribute that has elements.
RealSlot(va, i, comp) ==
    /\ GetComponent(va.attribute_loaders[i], comp) < 12
    /\ GetNumElements(va, GetComponent(va.attribute_loaders[i], comp)) # 0

PackingArrays ==
    { VertexAttributes([i \in 1 .. NumLoaders |->
                          CASE i = 1 -> first
                            [] i = 2 -> second
                            [] i = 4 -> fourth
                            [] OTHER -> EmptyLoader], {}) :
        first \in { Loader(1, <<0>>, 12, 0), Loader(3, <<0, 13, 1>>, 24, 0) },
        second \in { EmptyLoader, Loader(1, <<2>>, 6, 64) },
        fourth \in { Loader(1, <<4>>, 0, 128), Loader(1, <<4>>, 5, 128) } }

InitPacking ==
    /\ vs_data_dirty = FALSE
    /\ fs_data_dirty = FALSE
    /\ \E va \in PackingArrays, stride_alignment \in {1, 4} :
         InitWith([PlainRegs EXCEPT !.pipeline.vertex_attributes = va],
                  Pica({}, FALSE, {}, FALSE), Instance(FALSE, stride_alignment),
                  Env({"stream_buffer"}), Memory(4096))

NextPacking == DrawStep

SpecPacking == InitPacking /\ [][NextPacking]_vars

\* The positions in log of the copies of vertex data, and of those the loader
\* of binding b made: the ones after its FlushRegion and before the next.
VertexCopyAt(k) ==
    log[k].ev = "Copy" /\ log[k].buf = "stream_buffer" /\ log[k].id = "vertex"

VertexFlushAt(k) == log[k].ev = "FlushRegion" /\ log[k].id = "vertex"

CopiesOfBinding(b) ==
    { k \in 1 .. Len(log) :
        /\ VertexCopyAt(k)
        /\ Cardinality({ j \in 1 .. k : VertexFlushAt(j) }) = b + 1 }

\* The guest bytes the copies at positions K read, the stream-buffer bytes they
\* write, and how many bytes they read in all.
SourceBytes(K) == UNION { log[k].idx .. (log[k].idx + log[k].n - 1) : k \in K }

PackedRegion(K) == UNION { log[k].at .. (log[k].at + log[k].n - 1) : k \in K }

RECURSIVE BytesRead(_)
BytesRead(K) ==
    IF K = {} THEN 0
    ELSE LET k == CHOOSE x \in K : TRUE IN log[k].n + BytesRead(K \ {k})

\* The i-th loader the assembler does not skip, counted from binding 0.
LoaderOfBinding(va, b) ==
    CHOOSE i \in NonEmptyLoaders(va) : BindingOfLoader(va, i) = b

\* C24: for each loader it does not skip, SetupVertexArray reads exactly
\* stride * (max - min + 1) bytes of guest memory, those from
\* base + data_offset + min * stride on; the binding's offset is the place in
\* the stream buffer where the loader's packed region starts; and the packed
\* regions of the loaders of one draw do not overlap.
C24_LoaderSourceAndPacking ==
    pc = "SetupShaders" =>
       LET va == regs.pipeline.vertex_attributes
           vertex_num == vertex_info.vs_input_index_max - vertex_info.vs_input_index_min + 1
           bindings == 0 .. (Cardinality(NonEmptyLoaders(va)) - 1)
       IN  /\ \A b \in bindings :
                LET loader == va.attribute_loaders[LoaderOfBinding(va, b)]
                    start == va.base_address + loader.data_offset
                               + vertex_info.vs_input_index_min * loader.byte_count
                    K == CopiesOfBinding(b)
                IN  /\ K # {}
                    /\ SourceBytes(K) = start .. (start + loader.byte_count * vertex_num - 1)
                    /\ BytesRead(K) = loader.byte_count * vertex_num
                    /\ binding_offsets[b] = Min(PackedRegion(K))
           /\ \A b1, b2 \in bindings :
                b1 # b2 => PackedRegion(CopiesOfBinding(b1))
                               \cap PackedRegion(CopiesOfBinding(b2)) = {}

\* An indexed draw of the vertices 2..5 packed three loaders, one of them vertex
\* by vertex at an aligned stride, into a stream buffer that did not answer the
\* Map with its start.
C24_Witness ==
    /\ pc = "SetupShaders"
    /\ is_indexed
    /\ vertex_info.vs_input_index_min = 2
    /\ vertex_info.vs_input_index_max = 5
    /\ Cardinality(NonEmptyLoaders(regs.pipeline.vertex_attributes)) = 3
    /\ Cardinality(CopiesOfBinding(1)) = 4
    /\ Cardinality(CopiesOfBinding(0)) = 1
    /\ binding_offsets[0] # 0
    /\ binding_offsets[1] > binding_offsets[0]

\* The guest bytes the copies at positions K put at place pos of the stream buffer.
OriginOf(K, pos) ==
    { log[k].idx + (pos - log[k].at) :
        k \in { x \in K : log[x].at <= pos /\ pos < log[x].at + log[x].n } }

\* The stride the device takes for a loader.
AlignedStride(loader) == AlignUp(loader.byte_count, instance.MinVertexStrideAlignment)

\* C25: for each loader, vertex v of the draw range has its guest_stride bytes,
\* the guest's bytes [v * guest_stride, (v + 1) * guest_stride) of the loader's
\* source range, at [v * aligned_stride, v * aligned_stride + guest_stride) of
\* the loader's packed region, the binding's stride is the aligned stride and
\* nothing outside the source range is read; with the two strides equal the
\* packed region is a copy of the source range, byte for byte.
C25_AlignedStrideCopy ==
    pc = "SetupShaders" =>
       LET va == regs.pipeline.vertex_attributes
           vertex_num == vertex_info.vs_input_index_max - vertex_info.vs_input_index_min + 1
       IN  \A b \in 0 .. (Cardinality(NonEmptyLoaders(va)) - 1) :
              LET loader == va.attribute_loaders[LoaderOfBinding(va, b)]
                  start == va.base_address + loader.data_offset
                             + vertex_info.vs_input_index_min * loader.byte_count
                  K == CopiesOfBinding(b)
              IN  /\ pipeline_info.vertex_layout.bindings[b].stride = AlignedStride(loader)
                  /\ pipeline_info.vertex_layout.bindings[b].fixed = 0
                  /\ SourceBytes(K) \subseteq
                         start .. (start + loader.byte_count * vertex_num - 1)
                  /\ \A v \in 0 .. (vertex_num - 1), k \in 0 .. (loader.byte_count - 1) :
                        OriginOf(K, binding_offsets[b] + v * AlignedStride(loader) + k)
                            = {start + v * loader.byte_count + k}
                  /\ AlignedStride(loader) = loader.byte_count
                         => PackedRegion(K) =
                                binding_offsets[b]
                                    .. (binding_offsets[b] + loader.byte_count * vertex_num - 1)

\* A draw packed one loader of stride 6 at the aligned stride 8, vertex by
\* vertex, and one of stride 12 with a single copy.
C25_Witness ==
    /\ pc = "SetupShaders"
    /\ instance.MinVertexStrideAlignment = 4
    /\ \E b \in 0 .. 2 :
         /\ pipeline_info.vertex_layout.bindings[b].stride = 8
         /\ Cardinality(CopiesOfBinding(b)) = 4
         /\ \E k \in CopiesOfBinding(b) :
              log[k].n = 6 /\ log[k].at = binding_offsets[b] + 8
    /\ pipeline_info.vertex_layout.bindings[0].stride = 12
    /\ Cardinality(CopiesOfBinding(0)) = 1

(***************************************************************************)
(* Draws with each unit, unit 0 or not, enabled or not, set to a plain      *)
(* texture, a 2D shadow map, a cube shadow map or a texture cube.           *)
(***************************************************************************)
SpecialTypes == {"Shadow2D", "ShadowCube", "TextureCube"}

ModeConfigs(address) ==
    { Texture(enabled, type, address, 0, 1) :
        enabled \in BOOLEAN, type \in SpecialTypes \cup {"Texture2D"} }

InitModes ==
    /\ vs_data_dirty = FALSE
    /\ fs_data_dirty = FALSE
    /\ \E t0 \in ModeConfigs(200), t1 \in ModeConfigs(320), t2 \in ModeConfigs(400) :
         InitWith([PlainRegs EXCEPT !.texturing = Texturing(t0, t1, t2)],
                  Pica({}, FALSE, {}, FALSE), Instance(FALSE, 1),
                  [Env({}) EXCEPT !.acquire_fresh = BOOLEAN], Memory(4096))

NextModes == DrawStep

SpecModes == InitModes /\ [][NextModes]_vars

\* The positions in what the step adds to log of the calls ev.
AddedCalls(ev) == { i \in 1 .. Len(Added) : Added[i].ev = ev }

\* The surfaces the step tagged as shadow maps.
TaggedShadowMaps == { Added[i].id.surface : i \in AddedCalls("ShadowMap") }

\* Unit 0 is enabled and of this type.
Unit0Is(type) ==
    regs.texturing.textures[0].enabled /\ regs.texturing.textures[0].config.type = type

\* The addresses of the six faces of the cube, by slot.
FaceAddress(slot) == GetCubePhysicalAddress(regs.texturing, CubeFaces[slot + 1])

\* C26: SyncTextureUnits treats a unit in a special way only if it is unit 0,
\* enabled and of the special type. Units 1 and 2, when enabled, are resolved
\* through the surface cache and bound once, to the image or copy view of
\* their surface, whatever their type. Unit 0 as Shadow2D has one surface
\* tagged as a shadow map and bound by its storage view; unit 0 as ShadowCube
\* has six surfaces, one per face address, tagged and bound by their storage
\* views to six different slots. Nothing else is tagged, and no cube is
\* resolved unless unit 0 is an enabled TextureCube.
C26_SpecialModesOnlyOnUnit0 ==
    [][SyncTextureUnits =>
         LET sampler0 == GetSampler(regs.texturing.textures[0].config)
             address0 == regs.texturing.textures[0].config.address
         IN
         /\ \A u \in {1, 2} :
               regs.texturing.textures[u].enabled =>
                  LET surface == regs.texturing.textures[u].config.address
                      writes == AddedFor("AddImageSampler", "update_queue", u)
                  IN  /\ Cardinality(writes) = 1
                      /\ \A i \in writes :
                           /\ Added[i].at = 0
                           /\ Added[i].id.view \in {ImageView(surface), CopyImageView(surface)}
                      /\ Cardinality({ i \in AddedFor("GetTextureSurface", "res_cache", u) :
                                         Added[i].id.physical_address = surface }) = 1
                      /\ surface \notin TaggedShadowMaps
         /\ Unit0Is("Shadow2D") =>
               /\ Cardinality(AddedFor("GetTextureSurface", "res_cache", 0)) = 1
               /\ TaggedShadowMaps = {address0}
               /\ Cardinality(AddedCalls("ShadowMap")) = 1
               /\ Cardinality(AddedFor("AddImageSampler", "update_queue", 0)) = 1
               /\ texture_set'[0][0] = [view |-> StorageView(address0), sampler |-> sampler0]
         /\ Unit0Is("ShadowCube") =>
               /\ Cardinality(AddedFor("GetTextureSurface", "res_cache", 0)) = 6
               /\ TaggedShadowMaps = { FaceAddress(slot) : slot \in 0 .. 5 }
               /\ Cardinality(AddedCalls("ShadowMap")) = 6
               /\ Cardinality(AddedFor("AddImageSampler", "update_queue", 0)) = 6
               /\ { Added[i].at : i \in AddedFor("AddImageSampler", "update_queue", 0) }
                      = 0 .. 5
               /\ \A slot \in 0 .. 5 :
                     texture_set'[0][slot] = [view |-> StorageView(FaceAddress(slot)),
                                              sampler |-> sampler0]
         /\ ~(Unit0Is("Shadow2D") \/ Unit0Is("ShadowCube")) => AddedCalls("ShadowMap") = {}
         /\ ~Unit0Is("TextureCube") => AddedCalls("GetTextureCube") = {}
         /\ (~regs.texturing.textures[0].enabled
                 /\ regs.texturing.textures[0].config.type \in SpecialTypes)
               => texture_set'[0][0] = NullBinding]_vars

\* SyncTextureUnits has run with unit 0 an enabled cube shadow map, unit 1 an
\* enabled unit of type ShadowCube and unit 2 an enabled unit of type Shadow2D:
\* unit 0 holds six storage views, units 1 and 2 the image view of one surface.
C26_Witness ==
    /\ pc = "SyncAndUploadLUTs"
    /\ Unit0Is("ShadowCube")
    /\ regs.texturing.textures[1].enabled
    /\ regs.texturing.textures[1].config.type = "ShadowCube"
    /\ regs.texturing.textures[2].enabled
    /\ regs.texturing.textures[2].config.type = "Shadow2D"
    /\ \A slot \in 0 .. 5 : texture_set[0][slot].view = StorageView(FaceAddress(slot))
    /\ texture_set[1][0].view = ImageView(320)
    /\ texture_set[1][1] = Unset
    /\ texture_set[2][0].view = ImageView(400)

(***************************************************************************)
(* Accelerated draws with none, two, twelve or all sixteen of the ids the   *)
(* loop of SetupFixedAttribs asks IsDefaultAttribute about marked default,  *)
(* no loader or one, the attributes sent to registers of their own or in    *)
(* pairs to one, and a stream buffer that answers a Map with any place.     *)
(***************************************************************************)
LoaderAttributes == 0 .. 11

FixedArrays ==
    { VertexAttributes(Loaders(first, EmptyLoader, EmptyLoader), mask) :
        first \in { EmptyLoader, Loader(1, <<0>>, 12, 0) },
        mask \in { {}, {1, 5}, LoaderAttributes, Locations } }

InitFixed ==
    /\ vs_data_dirty = FALSE
    /\ fs_data_dirty = FALSE
    /\ \E va \in FixedArrays,
          input_to_register \in {IdentityRegisters, ReversedRegisters, PairedRegisters} :
         InitWith([PlainRegs EXCEPT !.pipeline.vertex_attributes = va,
                                    !.vs.input_to_register = input_to_register],
                  Pica({}, FALSE, {}, FALSE), Instance(FALSE, 1),
                  Env({"stream_buffer"}), Memory(4096))

NextFixed == DrawStep

SpecFixed == InitFixed /\ [][NextFixed]_vars

\* The position in log of the Map SetupFixedAttribs made: the one right before
\* the write of the constant.
FixedMapAt ==
    CHOOSE k \in 1 .. Len(log) :
       /\ k < Len(log)
       /\ log[k].ev = "Map" /\ log[k].buf = "stream_buffer"
       /\ log[k + 1].ev = "Write" /\ log[k + 1].id = "default_attrib"

\* The positions of the writes SetupFixedAttribs made into what it mapped.
FixedWrites ==
    { k \in (FixedMapAt + 1) .. Len(log) : log[k].ev = "Write" /\ log[k].buf = "stream_buffer" }

\* C27: SetupFixedAttribs writes the constant at the start of what it mapped
\* and the guest's default vectors one after the other behind it, all inside
\* the mapped bytes; what it commits, the stride of the fixed binding, is the
\* end of the last vector and no more than the mapped size.
C27_FixedAttribsWithinMap ==
    pc = "SetupShaders" =>
       LET map == log[FixedMapAt]
           commit == log[Len(log)]
           count == pipeline_info.vertex_layout.binding_count
       IN  /\ log[FixedMapAt + 1].at = map.at
           /\ \A k \in FixedWrites :
                /\ log[k].at = map.at + (k - FixedMapAt - 1) * SizeofVec4f
                /\ log[k].at + log[k].n <= map.at + map.n
           /\ commit.ev = "Commit"
           /\ commit.n = Cardinality(FixedWrites) * SizeofVec4f
           /\ commit.n <= map.n
           /\ pipeline_info.vertex_layout.bindings[count - 1].fixed = 1
           /\ pipeline_info.vertex_layout.bindings[count - 1].stride = commit.n
           /\ binding_offsets[count - 1] = map.at

\* With no loader, all sixteen ids marked default and each sent to a register
\* of its own, SetupFixedAttribs mapped 256 bytes and wrote the constant and
\* sixteen vectors: the last one at bytes 256 .. 271 of what it mapped, and
\* 272 bytes committed.
C27_Witness ==
    /\ pc = "SetupShaders"
    /\ regs.pipeline.vertex_attributes.fixed_attribute_mask = Locations
    /\ log[FixedMapAt].n = 256
    /\ Cardinality(FixedWrites) = 17
    /\ log[Len(log) - 1].ev = "Write"
    /\ log[Len(log) - 1].at = log[FixedMapAt].at + 256
    /\ log[Len(log)].n = 272
    /\ pipeline_info.vertex_layout.bindings[0].stride = 272

(***************************************************************************)
(* Software batches and accelerated draws with a surface cache that hands   *)
(* out a framebuffer with a handle or without one, and a pipeline cache     *)
(* whose BindPipeline reports the pipeline bound or not ready.              *)
(***************************************************************************)
InitBatch ==
    /\ vs_data_dirty = FALSE
    /\ fs_data_dirty = FALSE
    /\ \E async \in BOOLEAN, num_vertices \in {4, 7} :
         InitWith([PlainRegs EXCEPT !.pipeline.num_vertices = num_vertices],
                  Pica({}, FALSE, {}, FALSE),
                  [Instance(FALSE, 1) EXCEPT !.async_shaders = async],
                  [Env({}) EXCEPT !.pipeline_ready = BOOLEAN,
                                  !.framebuffers = { Framebuffer(TRUE, 0, 0),
                                                     Framebuffer(FALSE, 0, 64) }],
                  Memory(4096))

NextBatch == DrawStep

SpecBatch == InitBatch /\ [][NextBatch]_vars

\* The draw at hand got as far as Draw: it asked for the framebuffer.
DrawEntered == \E i \in 1 .. Len(log) : log[i].ev = "GetFramebufferSurfaces"

\* C28: when Draw has returned, on whichever path, the software vertex batch
\* is empty.
C28_BatchEmptyAfterDraw ==
    (pc = "done" /\ DrawEntered) => vertex_batch = 0

\* A software batch of three vertices was drawn, the surface cache had no
\* framebuffer for it, Draw returned true, and the three vertices are still in
\* the batch.
C28_Witness ==
    /\ pc = "done"
    /\ ~accelerate
    /\ DrawEntered
    /\ framebuffer.handle_null
    /\ result = TRUE
    /\ log[Len(log)].ev = "GetFramebufferSurfaces"
    /\ vertex_batch = 3

(***************************************************************************)
(* Accelerated calls that are turned down or go on to Draw: every           *)
(* geometry-shader setting and topology, instances with and without         *)
(* triangle fans, a pipeline cache that has or has not the shader programs  *)
(* and the pipeline, a surface cache with and without a framebuffer.        *)
(***************************************************************************)
InitReject ==
    /\ vs_data_dirty = FALSE
    /\ fs_data_dirty = FALSE
    /\ \E use_gs \in {"No", "Yes"}, mode \in {"Point", "VariablePrimitive"},
          topology \in {"List", "Fan", "Shader"},
          fan \in BOOLEAN, num_vertices \in {4, 7} :
         InitWith([PlainRegs EXCEPT !.pipeline.use_gs = use_gs,
                                    !.pipeline.gs_config.mode = mode,
                                    !.pipeline.triangle_topology = topology,
                                    !.pipeline.num_vertices = num_vertices],
                  Pica({}, FALSE, {}, FALSE),
                  [Instance(FALSE, 1) EXCEPT !.IsTriangleFanSupported = fan,
                                             !.async_shaders = TRUE],
                  [Env({}) EXCEPT !.shader_ready = BOOLEAN,
                                  !.pipeline_ready = BOOLEAN,
                                  !.framebuffers = { Framebuffer(TRUE, 0, 0),
                                                     Framebuffer(FALSE, 0, 64) }],
                  Memory(4096))

NextReject == DrawStep

SpecReject == InitReject /\ [][NextReject]_vars

\* The positions in log where the draw bound a pipeline, began rendering or
\* handed a command to the scheduler.
DrawIssued ==
    { i \in 1 .. Len(log) : log[i].ev \in {"BindPipeline", "BeginRendering", "Record"} }

\* C29: when the accelerated call has returned false, it bound no pipeline,
\* recorded no command and never entered Draw, and no draw is on the command
\* buffer; when it has returned after entering Draw, it returned true.
C29_FalseOnlyBeforeDraw ==
    (accelerate /\ pc = "done") =>
       /\ result = FALSE =>
            /\ DrawIssued = {}
            /\ ~DrawEntered
            /\ \A k \in 1 .. Len(cmdbuf) : cmdbuf[k].call \notin {"draw", "drawIndexed"}
       /\ DrawEntered => result = TRUE

\* An accelerated call decoded its vertex array into the stream buffer, did
\* not get its vertex shader and returned false with nothing bound or recorded.
C29_Witness ==
    /\ accelerate
    /\ pc = "done"
    /\ result = FALSE
    /\ \E i \in 1 .. Len(log) : log[i].ev = "Commit" /\ log[i].buf = "stream_buffer"
    /\ log[Len(log)].ev = "UseProgrammableVertexShader"
    /\ log[Len(log)].n = 0
    /\ DrawIssued = {}

(***************************************************************************)
(* Draws whose framebuffer has one of two scissor rectangles, with lighting *)
(* and fog tables dirty or not, a ring buffer of the uniforms that answers  *)
(* a Map with any place, a ring buffer of the tables that advances or       *)
(* wraps, and a guest that writes uniform registers between draws.          *)
(***************************************************************************)
\* The buffer of the tables answers a Map further on, or wrapped at its start.
AdvanceOrWrap == { [slot |-> 1, invalidate |-> FALSE], [slot |-> 0, invalidate |-> TRUE] }

InitDirty ==
    /\ vs_data_dirty = FALSE
    /\ fs_data_dirty = FALSE
    /\ \E lighting_dirty \in { {}, {0} }, fog_dirty \in BOOLEAN :
         InitWith(PlainRegs, Pica(lighting_dirty, fog_dirty, {}, FALSE),
                  Instance(FALSE, 1),
                  [Env({"uniform_buffer"}) EXCEPT
                     !.maps["texture_lf_buffer"] = AdvanceOrWrap,
                     !.framebuffers = { Framebuffer(FALSE, 0, 64),
                                        Framebuffer(FALSE, 1, 64) }],
                  Memory(4096))

NextDirty == DrawStep \/ NotifyUniformsChanged

SpecDirty == InitDirty /\ [][NextDirty]_vars

\* The step uploaded the fragment uniforms and bound the uploaded range.
FsDataUploaded ==
    \E i \in 1 .. Len(Added) - 1 :
       /\ Added[i].ev = "Write" /\ Added[i].buf = "uniform_buffer"
       /\ Added[i].id = "fs_data"
       /\ Added[i + 1].ev = "UpdateRange" /\ Added[i + 1].idx = FSBinding
       /\ Added[i + 1].at = Added[i].at
       /\ uniform_ranges'[FSBinding] = Added[i].at

\* C30: a step of a draw that changes the fragment uniforms (a table offset, the
\* scissor rectangle) leaves them marked dirty; the mark is only taken off by
\* the upload of the fragment uniforms to the place their binding then points
\* at; and when the draw gets to record its command, the marks of the vertex
\* and fragment uniforms are off, and in an accelerated draw the mark of the
\* shader's own uniforms too.
C30_UniformsCleanAtRecord ==
    [][/\ (pc # "idle" /\ fs_data' # fs_data) => fs_data_dirty'
       /\ (fs_data_dirty /\ ~fs_data_dirty') => (UploadUniforms /\ FsDataUploaded)
       /\ DrawBatch =>
            /\ ~vs_data_dirty /\ ~fs_data_dirty
            /\ accelerate => ~pica.vs_setup.uniforms_dirty]_vars

\* An accelerated draw on the framebuffer with scissor 1 uploaded a lighting
\* table, then the fragment uniforms, and is about to record with no mark set.
C30_Witness ==
    /\ pc = "DrawBatch"
    /\ accelerate
    /\ fs_data.scissor = 1
    /\ framebuffer.scissor = 1
    /\ ~vs_data_dirty /\ ~fs_data_dirty /\ ~pica.vs_setup.uniforms_dirty
    /\ \E i \in 1 .. Len(log), j \in 1 .. Len(log) :
         /\ i < j
         /\ log[i].ev = "Write" /\ log[i].buf = "texture_lf_buffer"
         /\ log[j].ev = "Write" /\ log[j].buf = "uniform_buffer"
         /\ log[j].id = "fs_data"
         /\ fs_data.lighting_lut_offset[0] = log[i].at \div SizeofVec2f
         /\ uniform_ranges[FSBinding] = log[j].at

====
